---- MODULE Spec2Model ----
(***************************************************************************)
(* Verification model of the dual-asset transaction core of               *)
(* monetarium-node: the SKA burn ledger (SKABurnState), the MsgTx wire     *)
(* codec, the fee splitter, SKA emission block rules and transaction      *)
(* sanity.  Bytes are integers 0..255, byte strings are sequences.        *)
(* int64 fields are kept as their 8-byte little-endian two's complement   *)
(* image (what binary.LittleEndian.PutUint64(uint64(v)) writes), since    *)
(* TLC's integers are narrower than 64 bits.  *big.Int values are small   *)
(* integers; a nil pointer is the empty sequence and a set pointer is a   *)
(* one-element sequence.                                                  *)
(***************************************************************************)
EXTENDS Integers, Sequences, FiniteSets, TLC

VARIABLES
    \* ---- SKABurnState and its database
    burned,      \* SKABurnState.burned : CoinType -> big.Int
    disk,        \* the skaburnstate bucket: [exists, kv]
    bpc,         \* "new" before NewSKABurnState, then "ready" or "failed"
    stack,       \* blocks connected since the baseline, oldest first
    height,      \* height of the chain tip
    snapBurned,  \* ledger as it was before the first block of stack
    snapDisk,    \* bucket as it was before the first block of stack
    touched,     \* some block of the current sequence carried a burn
    prevBurned,  \* ledger before the last operation
    lastOp,      \* the last operation applied
    \* ---- a MsgTx through the wire codec and the sanity check
    msgTx,       \* the transaction
    protoVer,    \* the protocol version of the encoder and the decoder
    cpc,         \* "start", "encoded", "decoded"
    buf,         \* BtcEncode's result: [err, bytes]
    size,        \* SerializeSize's result
    dec,         \* BtcDecode's result: [err, v, rest]
    sanity,      \* CheckTransactionSanity's result, "unchecked" before
    sanityMax,   \* the maxTxSize it was called with
    \* ---- the fee splitter
    feesByType,  \* the fees collected: CoinType -> big.Int
    work,        \* workProportion, uint16
    stake,       \* stakeProportion, uint16
    split,       \* CalcFeeSplitByCoinType's result: [minerFees, stakerFees]
    fpc,         \* "start", "split"
    \* ---- SKA emission rules of a block
    chainParams, \* chain parameters
    chkBlock,    \* the block checked, a list of transactions
    chkHeight,   \* its height
    emissionErr, \* CheckSKAEmissionInBlock's error, <<>> for nil
    epc,         \* "start", "checked"
    \* ---- the burn ledger under its lock, inside database transactions
    mtx,         \* SKABurnState.mtx: [writer, readers]
    wpc,         \* position of the goroutine that applies blocks
    wop,         \* "connect", "disconnect" or "clear": the call in progress
    wblock,      \* the block being connected or disconnected
    todo,        \* burns the loop of the call has still to apply
    dbTx,        \* the open database transaction's bucket, Nil when none
    callErr,     \* error the call returned, "" for nil
    ncalls,      \* database transactions begun so far
    rpc,         \* position of the goroutine that reads the ledger
    rcall,       \* the reader's call: [fn, coinType]
    got,         \* what the reader's call returned
    \* ---- script buffers of the free list while a transaction is decoded
    scriptPool,  \* the free list: [free, loans, next]
    dpc,         \* position of BtcDecode
    dSerType,    \* msg.SerType
    dTxIn,       \* msg.TxIn, the signature script of each input: Nil or a buffer
    dTxOut,      \* msg.TxOut, the public key script of each output
    didx,        \* loop index i
    dErr,        \* the error BtcDecode returns, "" for nil
    ndecodes,    \* BtcDecode calls on this MsgTx value, the running one included
    \* ---- one call of a function that keeps no state
    callArgs,    \* the arguments of the call
    callRet,     \* what the call returned
    callPc,      \* "start", "returned"
    \* ---- the fee calculator
    feeRates,         \* calc.feeRates: coin type -> CoinTypeFeeRate
    utilizationStats, \* calc.utilizationStats: coin type -> UtilizationStats
    calcRet,          \* the last call of the calculator and what it returned
    ncalc,            \* UpdateUtilization and RecordTransactionFee calls so far
    \* ---- the transaction size tracker of a block template
    tst,         \* the TransactionSizeTracker: [sizesByCoinType, allocator]
    trackRet,    \* the last call of the tracker and what it returned
    ntrack       \* calls of the tracker so far

burnVars == <<burned, disk, bpc, stack, height, snapBurned, snapDisk,
              touched, prevBurned, lastOp>>

codecVars == <<msgTx, protoVer, cpc, buf, size, dec, sanity, sanityMax>>

feeVars == <<feesByType, work, stake, split, fpc>>

emissionVars == <<chainParams, chkBlock, chkHeight, emissionErr, epc>>

lockVars == <<mtx, wpc, wop, wblock, todo, dbTx, callErr, ncalls, rpc, rcall,
              got>>

poolVars == <<scriptPool, dpc, dSerType, dTxIn, dTxOut, didx, dErr, ndecodes>>

callVars == <<callArgs, callRet, callPc>>

calcVars == <<feeRates, utilizationStats, calcRet, ncalc>>

trackVars == <<tst, trackRet, ntrack>>

vars == <<burnVars, codecVars, feeVars, emissionVars, lockVars, poolVars,
          callVars, calcVars, trackVars>>

\* the components next to the burn ledger, the codec, the fee splitter and
\* the emission rules
exceptBurn == <<codecVars, feeVars, emissionVars, lockVars, poolVars,
                callVars, calcVars, trackVars>>

exceptCodec == <<burnVars, feeVars, emissionVars, lockVars, poolVars,
                 callVars, calcVars, trackVars>>

exceptFees == <<burnVars, codecVars, emissionVars, lockVars, poolVars,
                callVars, calcVars, trackVars>>

exceptEmission == <<burnVars, codecVars, feeVars, lockVars, poolVars,
                    callVars, calcVars, trackVars>>

exceptLock == <<codecVars, feeVars, emissionVars, poolVars, callVars,
                calcVars, trackVars>>

exceptPool == <<burnVars, codecVars, feeVars, emissionVars, lockVars,
                callVars, calcVars, trackVars>>

exceptCall == <<burnVars, codecVars, feeVars, emissionVars, lockVars,
                poolVars, calcVars, trackVars>>

exceptCalc == <<burnVars, codecVars, feeVars, emissionVars, lockVars,
                poolVars, callVars, trackVars>>

exceptTrack == <<burnVars, codecVars, feeVars, emissionVars, lockVars,
                 poolVars, callVars, calcVars>>

\* the components a specification leaves out stay idle
IdleBurn ==
    /\ burned = <<>> /\ disk = <<>> /\ bpc = "idle" /\ stack = <<>>
    /\ height = 0 /\ snapBurned = <<>> /\ snapDisk = <<>> /\ touched = FALSE
    /\ prevBurned = <<>> /\ lastOp = "none"

IdleCodec ==
    /\ msgTx = <<>> /\ protoVer = 0 /\ cpc = "idle" /\ buf = <<>> /\ size = 0
    /\ dec = <<>> /\ sanity = "unchecked" /\ sanityMax = 0

IdleFees ==
    /\ feesByType = <<>> /\ work = 0 /\ stake = 0 /\ split = <<>>
    /\ fpc = "idle"

IdleEmission ==
    /\ chainParams = <<>> /\ chkBlock = <<>> /\ chkHeight = 0 /\ emissionErr = <<>>
    /\ epc = "idle"

IdlePool ==
    /\ scriptPool = <<>> /\ dpc = "off" /\ dSerType = 0 /\ dTxIn = <<>>
    /\ dTxOut = <<>> /\ didx = 0 /\ dErr = "" /\ ndecodes = 0

IdleCall == callArgs = <<>> /\ callRet = <<>> /\ callPc = "off"

IdleCalc ==
    /\ feeRates = <<>> /\ utilizationStats = <<>> /\ calcRet = <<>> /\ ncalc = 0

IdleTrack == tst = <<>> /\ trackRet = <<>> /\ ntrack = 0

IdleLock ==
    /\ mtx = <<>> /\ wpc = "off" /\ wop = "none" /\ wblock = <<>> /\ todo = <<>>
    /\ dbTx = <<>> /\ callErr = "" /\ ncalls = 0 /\ rpc = "off" /\ rcall = "none"
    /\ got = <<>>

----------------------------------------------------------------------------
(* Bytes and integers *)

RECURSIVE BytesBE(_)
\* big.Int.Bytes(): big-endian magnitude of |n|, no leading zero, empty for 0
BytesBE(n) ==
    LET a == IF n < 0 THEN 0 - n ELSE n
    IN IF a = 0 THEN <<>> ELSE Append(BytesBE(a \div 256), a % 256)

RECURSIVE SetBytes(_)
\* big.Int.SetBytes(): big-endian magnitude to a non-negative integer
SetBytes(bs) ==
    IF bs = <<>> THEN 0
    ELSE SetBytes(SubSeq(bs, 1, Len(bs) - 1)) * 256 + bs[Len(bs)]

RECURSIVE PutLE(_, _)
\* binary.LittleEndian.PutUintN: n bytes of the non-negative integer v
PutLE(v, n) == IF n = 0 THEN <<>> ELSE <<v % 256>> \o PutLE(v \div 256, n - 1)

RECURSIVE UintLE(_)
\* binary.LittleEndian.UintN: unsigned value of a little-endian byte string
UintLE(bs) == IF bs = <<>> THEN 0 ELSE bs[1] + 256 * UintLE(Tail(bs))

\* the bitwise complement of a byte string
NotBytes(bs) == [i \in 1..Len(bs) |-> 255 - bs[i]]

\* int64 image of a small integer (two's complement, little-endian)
I64(n) == IF n >= 0 THEN PutLE(n, 8) ELSE NotBytes(PutLE((0 - n) - 1, 8))

\* sign bit of an int64 image
I64Neg(v) == v[8] >= 128

\* int64(uint64) read back as an integer: big.NewInt(int64(Uint64(v)))
I64ToInt(v) == IF I64Neg(v) THEN (0 - 1) - UintLE(NotBytes(v)) ELSE UintLE(v)

----------------------------------------------------------------------------
(* Coin types and transaction outputs *)

CoinTypeVAR == 0

CoinTypeMax == 255

\* cointype.CoinType.IsVAR
IsVAR(ct) == ct = CoinTypeVAR

\* cointype.CoinType.IsSKA
IsSKA(ct) == ct >= 1 /\ ct <= CoinTypeMax

\* a nil *big.Int and a set one
Nil == <<>>

Some(n) == <<n>>

\* wire.TxOut
TxOut(ct, value, ska, ver, script) ==
    [CoinType |-> ct, Value |-> value, SKAValue |-> ska, Version |-> ver,
     PkScript |-> script]

\* "SKA_BURN"
SKABurnMarker == <<83, 75, 65, 95, 66, 85, 82, 78>>

\* the burn script of coin type c: OP_RETURN, push 9, "SKA_BURN", c
BurnScript(c) == <<106, 9>> \o SKABurnMarker \o <<c>>

\* chaincfg.Params.IsSKABurnScript: the exact 11-byte recognizer
IsSKABurnScript(script) ==
    /\ Len(script) = 11
    /\ script[1] = 106
    /\ script[2] = 9
    /\ SubSeq(script, 3, 10) = SKABurnMarker
    /\ IsSKA(script[11])

\* a pay-to-pubkey-hash style script that is no burn script
PlainScript == <<118, 169, 1, 7, 136, 172>>

----------------------------------------------------------------------------
(* SKA burn ledger: src/internal/blockchain/validate_dual_test.go:286-628 *)

skaBurnStateFormatVersion == 2

\* "__meta_version__"
skaBurnStateVersionKey ==
    <<95, 95, 109, 101, 116, 97, 95, 118, 101, 114, 115, 105, 111, 110, 95, 95>>

\* a map with no entry
EmptyMap == <<>>

\* the database without the skaburnstate bucket
NoBucket == [exists |-> FALSE, kv |-> EmptyMap]

\* delete(m, k)
MapDelete(m, k) == [x \in DOMAIN m \ {k} |-> m[x]]

\* m[k] = v
MapPut(m, k, v) == [x \in DOMAIN m \cup {k} |-> IF x = k THEN v ELSE m[x]]

\* GetAllBurnedAmounts: a deep copy of the ledger
GetAllBurnedAmounts(m) == [c \in DOMAIN m |-> m[c]]

\* SKABurnRecord
SKABurnRecord(ct, amount, h, txHash, outIndex) ==
    [CoinType |-> ct, Amount |-> amount, Height |-> h, TxHash |-> txHash,
     OutIndex |-> outIndex]

\* extractSKABurnsFromBlock, the test of one output: an SKA coin type with
\* a burn script
IsBurnOutput(txOut) == IsSKA(txOut.CoinType) /\ IsSKABurnScript(txOut.PkScript)

RECURSIVE BurnsOfOutputs(_, _, _, _)
\* extractSKABurnsFromBlock, the inner loop: outputs i.. of one transaction
BurnsOfOutputs(tx, i, h, txIndex) ==
    IF i > Len(tx) THEN <<>>
    ELSE (IF IsBurnOutput(tx[i])
          THEN <<SKABurnRecord(tx[i].CoinType, tx[i].SKAValue[1], h, txIndex,
                               i - 1)>>
          ELSE <<>>) \o BurnsOfOutputs(tx, i + 1, h, txIndex)

RECURSIVE BurnsOfTxs(_, _, _)
\* extractSKABurnsFromBlock, the outer loop: transactions t.. of the block
BurnsOfTxs(block, t, h) ==
    IF t > Len(block) THEN <<>>
    ELSE BurnsOfOutputs(block[t], 1, h, t) \o BurnsOfTxs(block, t + 1, h)

\* extractSKABurnsFromBlock: a block is the sequence of its transactions'
\* output lists
extractSKABurnsFromBlock(block, blockHeight) == BurnsOfTxs(block, 1, blockHeight)

\* a connect that stores the burn's amount instead of adding it
AddBurnOverwrite(m, burn) == MapPut(m, burn.CoinType, burn.Amount)

\* a connect that takes the burn's amount off the total
AddBurnSubtract(m, burn) ==
    IF burn.CoinType \in DOMAIN m
    THEN MapPut(m, burn.CoinType, m[burn.CoinType] - burn.Amount)
    ELSE MapPut(m, burn.CoinType, burn.Amount)

\* ConnectSKABurnsTx, one burn of the loop
AddBurn(m, burn) ==
    IF burn.CoinType \in DOMAIN m
    THEN MapPut(m, burn.CoinType, m[burn.CoinType] + burn.Amount)
    ELSE MapPut(m, burn.CoinType, burn.Amount)

\* a disconnect that keeps a coin type whose total reached zero
SubBurnKeepZero(m, burn) ==
    IF burn.CoinType \in DOMAIN m
    THEN IF m[burn.CoinType] - burn.Amount < 0 THEN MapDelete(m, burn.CoinType)
         ELSE MapPut(m, burn.CoinType, m[burn.CoinType] - burn.Amount)
    ELSE m

\* DisconnectSKABurnsTx, one burn of the loop
SubBurn(m, burn) ==
    IF burn.CoinType \in DOMAIN m
    THEN LET result == m[burn.CoinType] - burn.Amount
         IN IF result <= 0 THEN MapDelete(m, burn.CoinType)
            ELSE MapPut(m, burn.CoinType, result)
    ELSE m

RECURSIVE AddBurns(_, _)
AddBurns(m, burns) ==
    IF burns = <<>> THEN m ELSE AddBurns(AddBurn(m, Head(burns)), Tail(burns))

RECURSIVE SubBurns(_, _)
SubBurns(m, burns) ==
    IF burns = <<>> THEN m ELSE SubBurns(SubBurn(m, Head(burns)), Tail(burns))

\* a save that also writes the coin types whose total is zero
saveWithTxKeepZero(m) ==
    [exists |-> TRUE,
     kv |-> [k \in {skaBurnStateVersionKey} \cup {<<c>> : c \in DOMAIN m} |->
                IF k = skaBurnStateVersionKey
                THEN PutLE(2, 4)
                ELSE BytesBE(m[k[1]])]]

\* saveWithTx: the bucket is deleted and recreated, the version is written,
\* then one key per coin type with a non-zero total
saveWithTx(m) ==
    [exists |-> TRUE,
     kv |-> [k \in {skaBurnStateVersionKey}
                     \cup {<<c>> : c \in {x \in DOMAIN m : m[x] # 0}} |->
                IF k = skaBurnStateVersionKey
                THEN PutLE(skaBurnStateFormatVersion, 4)
                ELSE BytesBE(m[k[1]])]]

\* ConnectSKABurnsTx: [burned, disk] after the call
ConnectSKABurnsTx(m, d, burns) ==
    IF Len(burns) = 0 THEN [burned |-> m, disk |-> d]
    ELSE LET m2 == AddBurns(m, burns)
         IN [burned |-> m2, disk |-> saveWithTx(m2)]

\* DisconnectSKABurnsTx: [burned, disk] after the call
DisconnectSKABurnsTx(m, d, burns) ==
    IF Len(burns) = 0 THEN [burned |-> m, disk |-> d]
    ELSE LET m2 == SubBurns(m, burns)
         IN [burned |-> m2, disk |-> saveWithTx(m2)]

\* load, the format version: -1 stands for an invalid encoding
loadVersion(d) ==
    IF skaBurnStateVersionKey \in DOMAIN d.kv
    THEN (IF Len(d.kv[skaBurnStateVersionKey]) # 4 THEN 0 - 1
          ELSE UintLE(d.kv[skaBurnStateVersionKey]))
    ELSE 1

\* an entry check that lets the coin type 0 key through
loadEntryOkAnyCoin(version, k, v) ==
    /\ Len(k) = 1
    /\ IF version = 1 THEN Len(v) = 8 ELSE Len(v) >= 1

\* load, the checks of one entry of bucket.ForEach
loadEntryOk(version, k, v) ==
    /\ Len(k) = 1
    /\ k[1] # 0
    /\ IF version = 1 THEN Len(v) = 8 ELSE Len(v) >= 1

\* load, the amount of one entry
loadAmount(version, v) == IF version = 1 THEN I64ToInt(v) ELSE SetBytes(v)

\* load: [ok, burned]
load(d) ==
    IF ~d.exists THEN [ok |-> TRUE, burned |-> EmptyMap]
    ELSE LET version == loadVersion(d)
             keys == DOMAIN d.kv \ {skaBurnStateVersionKey}
         IN IF version < 0 \/ version > skaBurnStateFormatVersion
            THEN [ok |-> FALSE, burned |-> EmptyMap]
            ELSE IF \E k \in keys : ~loadEntryOk(version, k, d.kv[k])
            THEN [ok |-> FALSE, burned |-> EmptyMap]
            ELSE [ok |-> TRUE,
                  burned |-> [c \in {k[1] : k \in keys} |->
                                 loadAmount(version, d.kv[<<c>>])]]

----------------------------------------------------------------------------
(* Wire codec of MsgTx: src/wire/go.mod:240-1927 *)

DualCoinVersion == 12

SKABigIntVersion == 13

TxSerializeFull == 0

TxSerializeNoWitness == 1

TxSerializeOnlyWitness == 2

MaxMessagePayload == 33554432

minTxInPayload == 43

minTxOutPayload == 9

maxTxInPerMessage == (MaxMessagePayload \div minTxInPayload) + 1

maxTxOutPerMessage == (MaxMessagePayload \div minTxOutPayload) + 1

\* uint32 fields are kept as their 4-byte little-endian image
U32(n) == PutLE(n, 4)

MaxU32 == <<255, 255, 255, 255>>

ZeroHash == [i \in 1..32 |-> 0]

\* wire.OutPoint
OutPoint(hash, index, tree) == [Hash |-> hash, Index |-> index, Tree |-> tree]

\* wire.TxIn
TxIn(prevOut, sequence, valueIn, skaValueIn, blockHeight, blockIndex, script) ==
    [PreviousOutPoint |-> prevOut, Sequence |-> sequence, ValueIn |-> valueIn,
     SKAValueIn |-> skaValueIn, BlockHeight |-> blockHeight,
     BlockIndex |-> blockIndex, SignatureScript |-> script]

\* wire.MsgTx
MsgTx(serType, version, txIn, txOut, lockTime, expiry) ==
    [SerType |-> serType, Version |-> version, TxIn |-> txIn, TxOut |-> txOut,
     LockTime |-> lockTime, Expiry |-> expiry]

\* the zero values Go gives the fields no decoder writes
ZeroTxIn == TxIn(OutPoint(ZeroHash, U32(0), 0), U32(0), I64(0), Nil, U32(0),
                 U32(0), <<>>)

ZeroTxOut == TxOut(CoinTypeVAR, I64(0), Nil, 0, <<>>)

\* wire.VarIntSerializeSize
VarIntSerializeSize(n) == IF n < 253 THEN 1 ELSE IF n <= 65535 THEN 3 ELSE 5

\* wire.WriteVarInt
WriteVarInt(n) ==
    IF n < 253 THEN <<n>>
    ELSE IF n <= 65535 THEN <<253>> \o PutLE(n, 2)
    ELSE <<254>> \o PutLE(n, 4)

\* wire.WriteVarBytes
WriteVarBytes(b) == WriteVarInt(Len(b)) \o b

\* the result of a writer: the error and the bytes written
Written(bytes) == [err |-> "", bytes |-> bytes]

WriteFailed(e) == [err |-> e, bytes |-> <<>>]

\* two writers in sequence: the second runs only when the first succeeded
Then(a, b) ==
    IF a.err # "" THEN a
    ELSE IF b.err # "" THEN b
    ELSE Written(a.bytes \o b.bytes)

\* WriteOutPoint
WriteOutPoint(op) == op.Hash \o op.Index \o <<(op.Tree + 256) % 256>>

\* writeTxInPrefix
writeTxInPrefix(ti) == Written(WriteOutPoint(ti.PreviousOutPoint) \o ti.Sequence)

\* writeTxInWitnessV13 and writeTxOutV13: the length-prefixed magnitude of
\* an optional big integer, nothing but a zero length unless it is positive
WriteSKAMagnitude(op, ska) ==
    LET valueBytes == IF ska # Nil /\ ska[1] > 0 THEN BytesBE(ska[1]) ELSE <<>>
    IN IF Len(valueBytes) = 0 THEN Written(<<0>>)
       ELSE IF Len(valueBytes) > 255 THEN WriteFailed("ErrVarBytesTooLong")
       ELSE Written(<<Len(valueBytes)>> \o valueBytes)

\* writeTxInWitnessV13
writeTxInWitnessV13(ti) ==
    Then(Written(ti.ValueIn),
    Then(WriteSKAMagnitude("writeTxInWitnessV13", ti.SKAValueIn),
         Written(ti.BlockHeight \o ti.BlockIndex
                 \o WriteVarBytes(ti.SignatureScript))))

\* writeTxInWitness
writeTxInWitness(pver, ti) ==
    IF pver >= SKABigIntVersion THEN writeTxInWitnessV13(ti)
    ELSE Written(ti.ValueIn \o ti.BlockHeight \o ti.BlockIndex
                 \o WriteVarBytes(ti.SignatureScript))

\* an output writer that writes the 8-byte Value for every coin type
writeTxOutV13ValueOnly(to) ==
    Written(<<to.CoinType>> \o to.Value \o PutLE(to.Version, 2)
            \o WriteVarBytes(to.PkScript))

\* writeTxOutV13
writeTxOutV13(to) ==
    Then(Written(<<to.CoinType>>),
    Then(IF IsSKA(to.CoinType) THEN WriteSKAMagnitude("writeTxOutV13", to.SKAValue)
         ELSE Written(to.Value),
         Written(PutLE(to.Version, 2) \o WriteVarBytes(to.PkScript))))

\* writeTxOut
writeTxOut(pver, to) ==
    IF pver >= SKABigIntVersion THEN writeTxOutV13(to)
    ELSE Written(to.Value
                 \o (IF pver >= DualCoinVersion THEN <<to.CoinType>> ELSE <<>>)
                 \o PutLE(to.Version, 2) \o WriteVarBytes(to.PkScript))

RECURSIVE WriteTxIns(_, _, _)
\* the loops over msg.TxIn of encodePrefix (witness FALSE) and encodeWitness
WriteTxIns(pver, tis, witness) ==
    IF tis = <<>> THEN Written(<<>>)
    ELSE Then(IF witness THEN writeTxInWitness(pver, Head(tis))
              ELSE writeTxInPrefix(Head(tis)),
              WriteTxIns(pver, Tail(tis), witness))

RECURSIVE WriteTxOuts(_, _)
\* the loop over msg.TxOut of encodePrefix
WriteTxOuts(pver, tos) ==
    IF tos = <<>> THEN Written(<<>>)
    ELSE Then(writeTxOut(pver, Head(tos)), WriteTxOuts(pver, Tail(tos)))

\* encodePrefix
encodePrefix(msg, pver) ==
    Then(Written(WriteVarInt(Len(msg.TxIn))),
    Then(WriteTxIns(pver, msg.TxIn, FALSE),
    Then(Written(WriteVarInt(Len(msg.TxOut))),
    Then(WriteTxOuts(pver, msg.TxOut),
         Written(msg.LockTime \o msg.Expiry)))))

\* encodeWitness
encodeWitness(msg, pver) ==
    Then(Written(WriteVarInt(Len(msg.TxIn))), WriteTxIns(pver, msg.TxIn, TRUE))

\* BtcEncode
BtcEncode(msg, pver) ==
    Then(Written(PutLE(msg.Version, 2) \o PutLE(msg.SerType, 2)),
         IF msg.SerType = TxSerializeNoWitness THEN encodePrefix(msg, pver)
         ELSE IF msg.SerType = TxSerializeOnlyWitness THEN encodeWitness(msg, pver)
         ELSE IF msg.SerType = TxSerializeFull
         THEN Then(encodePrefix(msg, pver), encodeWitness(msg, pver))
         ELSE WriteFailed("ErrUnknownTxType"))

\* TxIn.SerializeSizePrefix
TxInSerializeSizePrefix(ti) == 41

\* TxIn.SerializeSizeWitness
TxInSerializeSizeWitness(ti) ==
    8 + 1 + 4 + 4 + VarIntSerializeSize(Len(ti.SignatureScript))
      + Len(ti.SignatureScript)
      + (IF ti.SKAValueIn # Nil /\ ti.SKAValueIn[1] > 0
         THEN Len(BytesBE(ti.SKAValueIn[1])) ELSE 0)

\* an output size that counts the 8-byte Value for every coin type
TxOutSerializeSizeFixed(to) ==
    1 + 2 + VarIntSerializeSize(Len(to.PkScript)) + Len(to.PkScript) + 8

\* TxOut.SerializeSize
TxOutSerializeSize(to) ==
    LET base == 1 + 2 + VarIntSerializeSize(Len(to.PkScript)) + Len(to.PkScript)
    IN IF IsSKA(to.CoinType) /\ to.SKAValue # Nil
       THEN base + 1 + Len(BytesBE(to.SKAValue[1]))
       ELSE base + 8

RECURSIVE SumSizes(_, _)
\* the size loops of MsgTx.SerializeSize: kind names the size summed
SumSizes(items, kind) ==
    IF items = <<>> THEN 0
    ELSE (IF kind = "inPrefix" THEN TxInSerializeSizePrefix(Head(items))
          ELSE IF kind = "inWitness" THEN TxInSerializeSizeWitness(Head(items))
          ELSE TxOutSerializeSize(Head(items)))
         + SumSizes(Tail(items), kind)

\* MsgTx.SerializeSize
SerializeSize(msg) ==
    IF msg.SerType = TxSerializeNoWitness
    THEN 12 + VarIntSerializeSize(Len(msg.TxIn))
            + VarIntSerializeSize(Len(msg.TxOut))
            + SumSizes(msg.TxIn, "inPrefix") + SumSizes(msg.TxOut, "out")
    ELSE IF msg.SerType = TxSerializeOnlyWitness
    THEN 4 + VarIntSerializeSize(Len(msg.TxIn)) + SumSizes(msg.TxIn, "inWitness")
    ELSE IF msg.SerType = TxSerializeFull
    THEN 12 + VarIntSerializeSize(Len(msg.TxIn))
            + VarIntSerializeSize(Len(msg.TxIn))
            + VarIntSerializeSize(Len(msg.TxOut))
            + SumSizes(msg.TxIn, "inPrefix") + SumSizes(msg.TxIn, "inWitness")
            + SumSizes(msg.TxOut, "out")
    ELSE 0

\* the result of a reader: the error, the value read and the bytes left
Read(v, rest) == [err |-> "", v |-> v, rest |-> rest]

ReadFailed(e) == [err |-> e, v |-> <<>>, rest |-> <<>>]

\* "if err != nil { return err }" after a read x, then the rest of the function
OrReturn(x, Continue(_)) == IF x.err # "" THEN x ELSE Continue(x)

\* io.ReadFull of n bytes
ReadFull(r, n) ==
    IF Len(r) < n THEN ReadFailed("EOF")
    ELSE Read(SubSeq(r, 1, n), SubSeq(r, n + 1, Len(r)))

\* wire.ReadVarInt for counts below 2^16, with its rejection of non-canonical
\* encodings
ReadVarInt(r) ==
    OrReturn(ReadFull(r, 1), LAMBDA d :
        IF d.v[1] < 253 THEN Read(d.v[1], d.rest)
        ELSE IF d.v[1] = 253
        THEN OrReturn(ReadFull(d.rest, 2), LAMBDA b :
                 IF UintLE(b.v) < 253 THEN ReadFailed("ErrNonCanonicalVarInt")
                 ELSE Read(UintLE(b.v), b.rest))
        ELSE ReadFailed("ErrVarIntTooLarge"))

\* readScript
readScript(r, maxAllowed) ==
    OrReturn(ReadVarInt(r), LAMBDA count :
        IF count.v > maxAllowed THEN ReadFailed("ErrVarBytesTooLong")
        ELSE ReadFull(count.rest, count.v))

\* ReadOutPoint
ReadOutPoint(r) ==
    OrReturn(ReadFull(r, 37), LAMBDA b :
        Read(OutPoint(SubSeq(b.v, 1, 32), SubSeq(b.v, 33, 36),
                      IF b.v[37] >= 128 THEN b.v[37] - 256 ELSE b.v[37]),
             b.rest))

\* readTxInPrefix: the input ti with its prefix fields read
readTxInPrefix(r, serType, ti) ==
    IF serType = TxSerializeOnlyWitness
    THEN ReadFailed("ErrReadInPrefixFromWitnessOnlyTx")
    ELSE OrReturn(ReadOutPoint(r), LAMBDA op :
         OrReturn(ReadFull(op.rest, 4), LAMBDA sq :
             Read([ti EXCEPT !.PreviousOutPoint = op.v, !.Sequence = sq.v],
                  sq.rest)))

\* readTxInWitness and readTxInWitnessV13, after the value fields: block
\* height, block index and signature script
ReadWitnessTail(r, ti) ==
    OrReturn(ReadFull(r, 4), LAMBDA bh :
    OrReturn(ReadFull(bh.rest, 4), LAMBDA bi :
    OrReturn(readScript(bi.rest, MaxMessagePayload), LAMBDA sc :
        Read([ti EXCEPT !.BlockHeight = bh.v, !.BlockIndex = bi.v,
                        !.SignatureScript = sc.v], sc.rest))))

\* readTxInWitnessV13: the input ti with its witness fields read
readTxInWitnessV13(r, ti) ==
    OrReturn(ReadFull(r, 8), LAMBDA vi :
    OrReturn(ReadFull(vi.rest, 1), LAMBDA ln :
        IF ln.v[1] > 0
        THEN OrReturn(ReadFull(ln.rest, ln.v[1]), LAMBDA vb :
                 ReadWitnessTail(vb.rest,
                     [ti EXCEPT !.ValueIn = vi.v,
                                !.SKAValueIn = Some(SetBytes(vb.v))]))
        ELSE ReadWitnessTail(ln.rest,
                 [ti EXCEPT !.ValueIn = vi.v, !.SKAValueIn = Nil])))

\* readTxInWitness
readTxInWitness(r, pver, ti) ==
    IF pver >= SKABigIntVersion THEN readTxInWitnessV13(r, ti)
    ELSE OrReturn(ReadFull(r, 8), LAMBDA vi :
             ReadWitnessTail(vi.rest, [ti EXCEPT !.ValueIn = vi.v]))

\* readTxOut and readTxOutV13, after the value fields: version and script
ReadTxOutTail(r, to) ==
    OrReturn(ReadFull(r, 2), LAMBDA ve :
    OrReturn(readScript(ve.rest, MaxMessagePayload), LAMBDA sc :
        Read([to EXCEPT !.Version = UintLE(ve.v), !.PkScript = sc.v], sc.rest)))

\* readTxOutV13
readTxOutV13(r, to) ==
    OrReturn(ReadFull(r, 1), LAMBDA ct :
        IF IsSKA(ct.v[1])
        THEN OrReturn(ReadFull(ct.rest, 1), LAMBDA ln :
                 IF ln.v[1] = 0
                 THEN ReadTxOutTail(ln.rest,
                          [to EXCEPT !.CoinType = ct.v[1], !.SKAValue = Some(0),
                                     !.Value = I64(0)])
                 ELSE OrReturn(ReadFull(ln.rest, ln.v[1]), LAMBDA vb :
                          ReadTxOutTail(vb.rest,
                              [to EXCEPT !.CoinType = ct.v[1],
                                         !.SKAValue = Some(SetBytes(vb.v)),
                                         !.Value = I64(0)])))
        ELSE OrReturn(ReadFull(ct.rest, 8), LAMBDA va :
                 ReadTxOutTail(va.rest,
                     [to EXCEPT !.CoinType = ct.v[1], !.Value = va.v,
                                !.SKAValue = Nil])))

\* readTxOut
readTxOut(r, pver, to) ==
    IF pver >= SKABigIntVersion THEN readTxOutV13(r, to)
    ELSE OrReturn(ReadFull(r, 8), LAMBDA va :
             IF pver >= DualCoinVersion
             THEN OrReturn(ReadFull(va.rest, 1), LAMBDA ct :
                      ReadTxOutTail(ct.rest,
                          [to EXCEPT !.Value = va.v, !.CoinType = ct.v[1]]))
             ELSE ReadTxOutTail(va.rest,
                      [to EXCEPT !.Value = va.v, !.CoinType = CoinTypeVAR]))

RECURSIVE ReadTxInPrefixes(_, _, _)
\* decodePrefix, the loop over the count inputs
ReadTxInPrefixes(r, count, serType) ==
    IF count = 0 THEN Read(<<>>, r)
    ELSE OrReturn(readTxInPrefix(r, serType, ZeroTxIn), LAMBDA one :
         OrReturn(ReadTxInPrefixes(one.rest, count - 1, serType), LAMBDA more :
             Read(<<one.v>> \o more.v, more.rest)))

RECURSIVE ReadTxOuts(_, _, _)
\* decodePrefix, the loop over the count outputs
ReadTxOuts(r, count, pver) ==
    IF count = 0 THEN Read(<<>>, r)
    ELSE OrReturn(readTxOut(r, pver, ZeroTxOut), LAMBDA one :
         OrReturn(ReadTxOuts(one.rest, count - 1, pver), LAMBDA more :
             Read(<<one.v>> \o more.v, more.rest)))

\* decodeWitness, the copy of the five witness fields of the TxIn read into
\* the input ti
CopyWitness(ti, w) ==
    [ti EXCEPT !.ValueIn = w.ValueIn, !.SKAValueIn = w.SKAValueIn,
               !.BlockHeight = w.BlockHeight, !.BlockIndex = w.BlockIndex,
               !.SignatureScript = w.SignatureScript]

RECURSIVE ReadTxInWitnesses(_, _, _)
\* decodeWitness, the loop over the inputs tis: each witness is read into a
\* fresh TxIn and its witness fields are copied into the input
ReadTxInWitnesses(r, pver, tis) ==
    IF tis = <<>> THEN Read(<<>>, r)
    ELSE OrReturn(readTxInWitness(r, pver, ZeroTxIn), LAMBDA one :
         OrReturn(ReadTxInWitnesses(one.rest, pver, Tail(tis)), LAMBDA more :
             Read(<<CopyWitness(Head(tis), one.v)>> \o more.v, more.rest)))

\* decodePrefix: msg with inputs, outputs, lock time and expiry read
decodePrefix(msg, r, pver) ==
    OrReturn(ReadVarInt(r), LAMBDA nin :
        IF nin.v > maxTxInPerMessage THEN ReadFailed("ErrTooManyTxs")
        ELSE
    OrReturn(ReadTxInPrefixes(nin.rest, nin.v, msg.SerType), LAMBDA ins :
    OrReturn(ReadVarInt(ins.rest), LAMBDA nout :
        IF nout.v > maxTxOutPerMessage THEN ReadFailed("ErrTooManyTxs")
        ELSE
    OrReturn(ReadTxOuts(nout.rest, nout.v, pver), LAMBDA outs :
    OrReturn(ReadFull(outs.rest, 4), LAMBDA lt :
    OrReturn(ReadFull(lt.rest, 4), LAMBDA ex :
        Read([msg EXCEPT !.TxIn = ins.v, !.TxOut = outs.v,
                         !.LockTime = lt.v, !.Expiry = ex.v], ex.rest)))))))

\* decodeWitness: msg with the witness of every input read
decodeWitness(msg, r, pver, isFull) ==
    OrReturn(ReadVarInt(r), LAMBDA count :
        IF isFull /\ count.v # Len(msg.TxIn)
        THEN ReadFailed("ErrMismatchedWitnessCount")
        ELSE IF count.v > maxTxInPerMessage THEN ReadFailed("ErrTooManyTxs")
        ELSE
    OrReturn(ReadTxInWitnesses(count.rest, pver,
                 IF isFull THEN msg.TxIn ELSE [i \in 1..count.v |-> ZeroTxIn]),
             LAMBDA ins :
        Read([msg EXCEPT !.TxIn = ins.v,
                         !.TxOut = IF isFull THEN msg.TxOut ELSE <<>>],
             ins.rest)))

\* the MsgTx that BtcDecode fills after it has read the version word
DecodedHeader(ve) ==
    MsgTx(UintLE(SubSeq(ve, 3, 4)), UintLE(SubSeq(ve, 1, 2)), <<>>, <<>>,
          U32(0), U32(0))

\* BtcDecode into a zero MsgTx: the error and the transaction decoded
BtcDecode(r, pver) ==
    OrReturn(ReadFull(r, 4), LAMBDA ve :
        IF DecodedHeader(ve.v).SerType = TxSerializeNoWitness
        THEN decodePrefix(DecodedHeader(ve.v), ve.rest, pver)
        ELSE IF DecodedHeader(ve.v).SerType = TxSerializeOnlyWitness
        THEN decodeWitness(DecodedHeader(ve.v), ve.rest, pver, FALSE)
        ELSE IF DecodedHeader(ve.v).SerType = TxSerializeFull
        THEN OrReturn(decodePrefix(DecodedHeader(ve.v), ve.rest, pver),
                 LAMBDA prefix :
                     decodeWitness(prefix.v, prefix.rest, pver, TRUE))
        ELSE ReadFailed("ErrUnknownTxType"))

----------------------------------------------------------------------------
(* The burn ledger as a state machine *)

\* blocks connected beyond the loaded state
MaxHeight == 3

\* outputs of validated blocks: VAR outputs carry Value, SKA outputs SKAValue
VarOut(n, script) == TxOut(CoinTypeVAR, I64(n), Nil, 0, script)

SkaOut(c, n, script) == TxOut(c, I64(0), Some(n), 0, script)

\* the blocks the host connects, each the list of its transactions' outputs
Blocks ==
    { \* no burn at all
      << <<VarOut(7, PlainScript)>> >>,
      \* a VAR output that carries a burn script, and an SKA payment
      << <<VarOut(3, BurnScript(1)), SkaOut(1, 9, PlainScript)>> >>,
      \* one SKA-1 burn
      << <<VarOut(7, PlainScript)>>, <<SkaOut(1, 5, BurnScript(1))>> >>,
      \* a burn output of amount zero
      << <<SkaOut(1, 0, BurnScript(1))>> >>,
      \* two burns of one coin type and one of another
      << <<SkaOut(1, 1, BurnScript(1)), SkaOut(2, 256, BurnScript(2))>>,
         <<SkaOut(1, 255, BurnScript(1))>> >> }

\* a bucket with the given version bytes (Nil: no version key) and entries
Bucket(versionBytes, entries) ==
    [exists |-> TRUE,
     kv |-> IF versionBytes = Nil THEN entries
            ELSE (skaBurnStateVersionKey :> versionBytes[1]) @@ entries]

\* what the database may hold when the node starts
PriorDisks ==
    { NoBucket,
      \* V1: no version key, 8-byte little-endian int64 totals
      Bucket(Nil, (<<1>> :> I64(5))),
      Bucket(Nil, (<<1>> :> I64(0)) @@ (<<2>> :> I64(300))),
      Bucket(Nil, (<<2>> :> I64(0 - 1))),
      Bucket(Nil, (<<1>> :> <<5>>)),
      Bucket(Some(PutLE(1, 4)), (<<1>> :> I64(5))),
      \* V2: big-endian magnitudes
      Bucket(Some(PutLE(2, 4)), EmptyMap),
      Bucket(Some(PutLE(2, 4)), (<<1>> :> <<5>>)),
      Bucket(Some(PutLE(2, 4)), (<<1>> :> <<1, 44>>) @@ (<<2>> :> <<0>>)),
      Bucket(Some(PutLE(2, 4)), (<<1>> :> <<0, 5>>)),
      \* rejected at load
      Bucket(Some(PutLE(2, 4)), (<<0>> :> <<1>>)),
      Bucket(Some(PutLE(2, 4)), (<<1, 2>> :> <<1>>)),
      Bucket(Some(PutLE(2, 4)), (<<1>> :> <<>>)),
      Bucket(Some(PutLE(3, 4)), (<<1>> :> <<5>>)),
      Bucket(Some(<<2>>), (<<1>> :> <<5>>)),
      \* a version value of 0
      Bucket(Some(PutLE(0, 4)), (<<1>> :> <<5>>)) }

InitBurn ==
    /\ disk \in PriorDisks
    /\ burned = EmptyMap
    /\ bpc = "new"
    /\ stack = <<>>
    /\ height = 0
    /\ snapBurned = EmptyMap
    /\ snapDisk = disk
    /\ touched = FALSE
    /\ prevBurned = EmptyMap
    /\ lastOp = "none"
    /\ IdleCodec /\ IdleFees /\ IdleEmission /\ IdleLock /\ IdlePool
    /\ IdleTrack
    /\ IdleCalc
    /\ IdleCall

\* NewSKABurnState: load the ledger; an error leaves no state to use
NewSKABurnState ==
    /\ bpc = "new"
    /\ LET r == load(disk)
       IN /\ bpc' = IF r.ok THEN "ready" ELSE "failed"
          /\ burned' = r.burned
          /\ snapBurned' = r.burned
    /\ prevBurned' = burned
    /\ lastOp' = "load"
    /\ UNCHANGED <<disk, stack, height, snapDisk, touched>>
    /\ UNCHANGED exceptBurn

\* the host connects block b; fresh starts a new sequence B1.. at this block
ConnectBlock(b, fresh) ==
    /\ bpc = "ready"
    /\ height < MaxHeight
    /\ LET burns == extractSKABurnsFromBlock(b, height + 1)
           r == ConnectSKABurnsTx(burned, disk, burns)
       IN /\ burned' = r.burned
          /\ disk' = r.disk
          /\ touched' = IF fresh THEN Len(burns) > 0
                        ELSE (touched \/ Len(burns) > 0)
    /\ stack' = IF fresh THEN <<b>> ELSE Append(stack, b)
    /\ snapBurned' = IF fresh THEN GetAllBurnedAmounts(burned) ELSE snapBurned
    /\ snapDisk' = IF fresh THEN disk ELSE snapDisk
    /\ height' = height + 1
    /\ prevBurned' = burned
    /\ lastOp' = "connect"
    /\ UNCHANGED bpc
    /\ UNCHANGED exceptBurn

\* the host disconnects the tip block during a reorganization
DisconnectBlock ==
    /\ bpc = "ready"
    /\ stack # <<>>
    /\ LET b == stack[Len(stack)]
           burns == extractSKABurnsFromBlock(b, height)
           r == DisconnectSKABurnsTx(burned, disk, burns)
       IN /\ burned' = r.burned
          /\ disk' = r.disk
    /\ stack' = SubSeq(stack, 1, Len(stack) - 1)
    /\ height' = height - 1
    /\ prevBurned' = burned
    /\ lastOp' = "disconnect"
    /\ UNCHANGED <<bpc, snapBurned, snapDisk, touched>>
    /\ UNCHANGED exceptBurn

\* Clear: the ledger and its bucket are removed
Clear ==
    /\ bpc = "ready"
    /\ burned' = EmptyMap
    /\ disk' = NoBucket
    /\ stack' = <<>>
    /\ snapBurned' = EmptyMap
    /\ snapDisk' = NoBucket
    /\ touched' = FALSE
    /\ prevBurned' = burned
    /\ lastOp' = "clear"
    /\ UNCHANGED <<bpc, height>>
    /\ UNCHANGED exceptBurn

NextBurn ==
    \/ NewSKABurnState
    \/ \E b \in Blocks :
           \E fresh \in (IF stack = <<>> THEN {TRUE} ELSE BOOLEAN) :
               ConnectBlock(b, fresh)
    \/ DisconnectBlock
    \/ Clear

Spec == InitBurn /\ [][NextBurn]_vars

\* a node that starts on a database without the bucket
InitFresh == InitBurn /\ disk = NoBucket

SpecFresh == InitFresh /\ [][NextBurn]_vars

----------------------------------------------------------------------------
(* Claims about the burn ledger *)

\* the sequence B1..Bn has been connected and fully disconnected again
Unwound == bpc = "ready" /\ lastOp = "disconnect" /\ stack = <<>>

\* C1: after B1..Bn are connected in order and disconnected in reverse
\* order, GetAllBurnedAmounts returns the coin types and amounts it returned
\* before B1 was connected.
C1_LedgerRestored == Unwound => GetAllBurnedAmounts(burned) = snapBurned

\* the bucket is the image saveWithTx writes for ledger m
IsSavedImage(d, m) == d = saveWithTx(m)

\* no total of ledger m is negative
NoNegativeTotal(m) == \A c \in DOMAIN m : m[c] >= 0

\* C2 as stated: after connecting and disconnecting in reverse the bucket
\* is byte-identical to the bucket before the first connect, whatever the
\* prior on-disk state was.
C2_DiskRestoredAlways == Unwound => disk = snapDisk

\* C2 amended: the bucket is byte-identical to the prior bucket when the
\* prior bucket was the V2 image saveWithTx writes for the ledger then in
\* memory and that ledger held no negative total, or when no block of the
\* sequence carried a burn; from any other prior state the bucket ends as
\* the V2 image of the final ledger.
C2_DiskRestored ==
    Unwound =>
        /\ (IsSavedImage(snapDisk, snapBurned) /\ NoNegativeTotal(snapBurned))
               => disk = snapDisk
        /\ ~touched => disk = snapDisk
        /\ touched => IsSavedImage(disk, burned)

C2_Witness ==
    /\ Unwound
    /\ touched
    /\ IsSavedImage(snapDisk, snapBurned)
    /\ NoNegativeTotal(snapBurned)
    /\ DOMAIN snapBurned # {}
    /\ disk = snapDisk

\* C9: after every ConnectSKABurnsTx call each coin type present before the
\* call is still present and its total is not smaller than before.
C9_ConnectMonotone ==
    lastOp = "connect" =>
        \A c \in DOMAIN prevBurned :
            c \in DOMAIN burned /\ burned[c] >= prevBurned[c]

C9_Witness ==
    /\ lastOp = "connect"
    /\ \E c \in DOMAIN prevBurned : burned[c] > prevBurned[c]

\* C10: once the ledger is loaded, neither the in-memory ledger nor the
\* on-disk bucket holds an entry keyed by coin type 0.
C10_NoVARInLedger ==
    bpc = "ready" => (CoinTypeVAR \notin DOMAIN burned
                      /\ <<CoinTypeVAR>> \notin DOMAIN disk.kv)

\* C23: whenever the version value stored in the bucket is neither 1 nor 2,
\* load returns an error and NewSKABurnState constructs no state.
C23_UnknownVersionRejected ==
    (lastOp = "load" /\ disk.exists /\ skaBurnStateVersionKey \in DOMAIN disk.kv
        /\ loadVersion(disk) \notin {1, 2}) => bpc = "failed"

\* a block with a VAR output carrying a burn script has been connected and
\* the ledger saved
C10_Witness ==
    /\ bpc = "ready"
    /\ lastOp = "connect"
    /\ touched
    /\ \E t \in 1..Len(stack[Len(stack)]) :
           \E i \in 1..Len(stack[Len(stack)][t]) :
               LET o == stack[Len(stack)][t][i]
               IN IsVAR(o.CoinType) /\ IsSKABurnScript(o.PkScript)

----------------------------------------------------------------------------
(* Transaction sanity: src/unnamed/part_009:194-308, src/wire/go.mod:656-676 *)

\* unsigned comparison of two little-endian images of one length
ULess(a, b) ==
    \E i \in 1..Len(a) :
        a[i] < b[i] /\ \A j \in (i + 1)..Len(a) : a[j] = b[j]

\* a < b for int64 images
I64Less(a, b) == IF I64Neg(a) # I64Neg(b) THEN I64Neg(a) ELSE ULess(a, b)

RECURSIVE AddLE(_, _, _)
AddLE(a, b, carry) ==
    IF a = <<>> THEN <<>>
    ELSE <<(a[1] + b[1] + carry) % 256>>
         \o AddLE(Tail(a), Tail(b), (a[1] + b[1] + carry) \div 256)

\* a + b in int64, wrapping as Go does
I64Add(a, b) == AddLE(a, b, 0)

\* cointype.MaxVARAtoms = 21e14 as an int64 image
MaxVARAtoms == <<0, 64, 7, 90, 240, 117, 7, 0>>

\* a field check that does not look at the Value of an SKA output
ValidateCoinTypeFieldsNoValue(to) ==
    IF IsVAR(to.CoinType) THEN to.SKAValue = Nil
    ELSE to.SKAValue # Nil /\ to.SKAValue[1] >= 0

\* TxOut.ValidateCoinTypeFields: TRUE when it returns nil
ValidateCoinTypeFields(to) ==
    IF IsVAR(to.CoinType) THEN to.SKAValue = Nil
    ELSE /\ to.Value = I64(0)
         /\ to.SKAValue # Nil
         /\ to.SKAValue[1] >= 0

RECURSIVE CheckOutputs(_, _, _)
\* CheckTransactionSanity, the loop over the outputs with the running VAR
\* and SKA totals
CheckOutputs(outs, totalVARAtoms, totalSKAAtoms) ==
    IF outs = <<>> THEN ""
    ELSE LET txOut == Head(outs)
             total == I64Add(totalVARAtoms, txOut.Value)
         IN IF ~ValidateCoinTypeFields(txOut) THEN "ErrBadTxOutValue"
            ELSE IF txOut.CoinType = CoinTypeVAR
            THEN (IF I64Neg(txOut.Value) THEN "ErrBadTxOutValue"
                  ELSE IF I64Less(MaxVARAtoms, txOut.Value) THEN "ErrBadTxOutValue"
                  ELSE IF I64Neg(total) THEN "ErrBadTxOutValue"
                  ELSE IF I64Less(MaxVARAtoms, total) THEN "ErrBadTxOutValue"
                  ELSE CheckOutputs(Tail(outs), total, totalSKAAtoms))
            ELSE (IF txOut.SKAValue[1] < 0 THEN "ErrBadTxOutValue"
                  ELSE IF totalSKAAtoms + txOut.SKAValue[1] < 0
                  THEN "ErrBadTxOutValue"
                  ELSE CheckOutputs(Tail(outs), totalVARAtoms,
                                    totalSKAAtoms + txOut.SKAValue[1]))

\* CheckTransactionSanity: the rule error, "" when the transaction is sane
CheckTransactionSanity(msg, maxTxSize) ==
    IF Len(msg.TxIn) = 0 THEN "ErrNoTxInputs"
    ELSE IF Len(msg.TxOut) = 0 THEN "ErrNoTxOutputs"
    ELSE IF SerializeSize(msg) > maxTxSize THEN "ErrTxTooBig"
    ELSE LET outErr == CheckOutputs(msg.TxOut, I64(0), 0)
         IN IF outErr # "" THEN outErr
            ELSE IF \E i, j \in 1..Len(msg.TxIn) :
                        i < j /\ msg.TxIn[i].PreviousOutPoint
                                   = msg.TxIn[j].PreviousOutPoint
            THEN "ErrDuplicateTxInputs"
            ELSE ""

----------------------------------------------------------------------------
(* The codec and the sanity check as a state machine *)

Hash1 == [i \in 1..32 |-> i]

\* inputs: a null-outpoint input, a VAR input, SKA inputs of several sizes
TxInNull == TxIn(OutPoint(ZeroHash, MaxU32, 0), MaxU32, I64(0 - 1), Nil, U32(0),
                 MaxU32, <<1, 83, 75, 65>>)

TxInVar == TxIn(OutPoint(Hash1, U32(1), 1), U32(7), I64(1000), Nil, U32(1000),
                U32(2), <<71, 72>>)

TxInSka == TxIn(OutPoint(Hash1, U32(2), 0 - 1), MaxU32, I64(0), Some(65537),
                U32(3), U32(0), <<>>)

TxInSkaZero == TxIn(OutPoint(Hash1, U32(3), 0), U32(0), I64(0), Some(0), U32(1),
                    U32(1), <<9>>)

TxInLists ==
    { <<>>, <<TxInNull>>, <<TxInVar>>, <<TxInSka>>, <<TxInSkaZero>>,
      <<TxInVar, TxInSka>>, <<TxInVar, TxInVar>> }

\* outputs that satisfy the field discriminator
GoodTxOuts ==
    { VarOut(100, PlainScript), VarOut(0, <<>>),
      TxOut(CoinTypeVAR, MaxVARAtoms, Nil, 1, PlainScript),
      SkaOut(1, 0, BurnScript(1)), SkaOut(1, 258, PlainScript),
      SkaOut(255, 255, <<106>>) }

\* outputs that break it
BadTxOuts ==
    { TxOut(CoinTypeVAR, I64(5), Some(5), 0, PlainScript),
      TxOut(CoinTypeVAR, I64(0 - 1), Nil, 0, PlainScript),
      TxOut(CoinTypeVAR, I64Add(MaxVARAtoms, I64(1)), Nil, 0, PlainScript),
      TxOut(1, I64(5), Some(5), 0, PlainScript),
      TxOut(1, I64(0), Nil, 0, PlainScript),
      TxOut(2, I64(0), Some(0 - 3), 0, PlainScript) }

TxOutLists ==
    {<<>>} \cup {<<o>> : o \in GoodTxOuts \cup BadTxOuts}
    \cup { <<VarOut(100, PlainScript), SkaOut(1, 258, PlainScript)>>,
           <<TxOut(CoinTypeVAR, MaxVARAtoms, Nil, 1, PlainScript),
             VarOut(100, PlainScript)>>,
           <<SkaOut(1, 258, PlainScript),
             TxOut(1, I64(5), Some(5), 0, PlainScript)>> }

ProtocolVersions == {11, 12, 13, 14}

SerTypes == {TxSerializeFull, TxSerializeNoWitness, TxSerializeOnlyWitness}

\* the maxTxSize values CheckTransactionSanity is called with
MaxTxSizes == {60, 1000000}

InitCodec ==
    /\ msgTx \in { MsgTx(st, 1, ins, outs, le[1], le[2]) :
                   st \in SerTypes, ins \in TxInLists, outs \in TxOutLists,
                   le \in {<<U32(0), U32(0)>>, <<U32(500), MaxU32>>} }
    /\ protoVer \in ProtocolVersions
    /\ cpc = "start"
    /\ buf = <<>>
    /\ size = 0
    /\ dec = <<>>
    /\ sanity = "unchecked"
    /\ sanityMax = 0
    /\ IdleBurn /\ IdleFees /\ IdleEmission /\ IdleLock /\ IdlePool
    /\ IdleTrack
    /\ IdleCalc
    /\ IdleCall

\* the transaction is serialized and its size computed
Encode ==
    /\ cpc = "start"
    /\ buf' = BtcEncode(msgTx, protoVer)
    /\ size' = SerializeSize(msgTx)
    /\ cpc' = "encoded"
    /\ UNCHANGED <<msgTx, protoVer, dec, sanity, sanityMax>>
    /\ UNCHANGED exceptCodec

\* the bytes written are decoded into a new MsgTx
Decode ==
    /\ cpc = "encoded"
    /\ buf.err = ""
    /\ dec' = BtcDecode(buf.bytes, protoVer)
    /\ cpc' = "decoded"
    /\ UNCHANGED <<msgTx, protoVer, buf, size, sanity, sanityMax>>
    /\ UNCHANGED exceptCodec

\* the transaction is checked for sanity
CheckSanity(maxTxSize) ==
    /\ sanity = "unchecked"
    /\ sanity' = CheckTransactionSanity(msgTx, maxTxSize)
    /\ sanityMax' = maxTxSize
    /\ UNCHANGED <<msgTx, protoVer, cpc, buf, size, dec>>
    /\ UNCHANGED exceptCodec

NextCodec ==
    \/ Encode
    \/ Decode
    \/ \E m \in MaxTxSizes : CheckSanity(m)

SpecCodec == InitCodec /\ [][NextCodec]_vars

----------------------------------------------------------------------------
(* Claims about the codec and the sanity check *)

\* the field discriminator of an output: a VAR output has no SKAValue and a
\* Value in [0, MaxVARAtoms]; an SKA output has Value 0 and an SKAValue that
\* is present and not negative
FieldDiscriminator(to) ==
    IF to.CoinType = CoinTypeVAR
    THEN to.SKAValue = Nil /\ ~I64Neg(to.Value) /\ ~I64Less(MaxVARAtoms, to.Value)
    ELSE to.Value = I64(0) /\ to.SKAValue # Nil /\ to.SKAValue[1] >= 0

\* a well-formed transaction: a known framing, outputs that satisfy the
\* discriminator, inputs whose SKA value is absent or not negative
WellFormed(t) ==
    /\ t.SerType \in SerTypes
    /\ \A i \in 1..Len(t.TxOut) : FieldDiscriminator(t.TxOut[i])
    /\ \A i \in 1..Len(t.TxIn) :
           t.TxIn[i].SKAValueIn = Nil \/ t.TxIn[i].SKAValueIn[1] >= 0

\* a well-formed transaction has been encoded and decoded at a version with
\* big-integer amounts
RoundTripDone ==
    cpc = "decoded" /\ protoVer >= SKABigIntVersion /\ WellFormed(msgTx)

\* C3 as stated: for every well-formed MsgTx t and every version v >= 13,
\* decoding at v the bytes of encoding t at v yields a transaction equal to
\* t in SerType, Version, inputs, outputs, LockTime and Expiry.
C3_RoundTripEqual == RoundTripDone => (dec.err = "" /\ dec.v = msgTx)

\* an input as the wire carries it: a zero SKA value is written as length 0,
\* which reads back as absent
CarriedWitness(ti) ==
    IF ti.SKAValueIn # Nil /\ ti.SKAValueIn[1] = 0
    THEN [ti EXCEPT !.SKAValueIn = Nil] ELSE ti

\* the part of t that its framing carries, the rest at its zero value
Carried(t) ==
    IF t.SerType = TxSerializeNoWitness
    THEN [t EXCEPT !.TxIn = [i \in 1..Len(t.TxIn) |->
                      [ZeroTxIn EXCEPT
                          !.PreviousOutPoint = t.TxIn[i].PreviousOutPoint,
                          !.Sequence = t.TxIn[i].Sequence]]]
    ELSE IF t.SerType = TxSerializeOnlyWitness
    THEN [t EXCEPT !.TxIn = [i \in 1..Len(t.TxIn) |->
                      [CarriedWitness(t.TxIn[i]) EXCEPT
                          !.PreviousOutPoint = ZeroTxIn.PreviousOutPoint,
                          !.Sequence = ZeroTxIn.Sequence]],
                   !.TxOut = <<>>, !.LockTime = U32(0), !.Expiry = U32(0)]
    ELSE [t EXCEPT !.TxIn = [i \in 1..Len(t.TxIn) |->
                      CarriedWitness(t.TxIn[i])]]

\* C3 amended: for every well-formed MsgTx t and every version v >= 13,
\* decoding at v the bytes of encoding t at v succeeds and yields the part
\* of t that its framing carries: everything under Full, the prefix fields
\* under NoWitness, the witness fields under OnlyWitness, with the fields
\* not carried at their zero values and a zero SKAValueIn read as absent.
C3_RoundTripCarried == RoundTripDone => (dec.err = "" /\ dec.v = Carried(msgTx))

\* a full transaction with a positive SKA input and a positive SKA output
\* came back equal
C3_Witness ==
    /\ RoundTripDone
    /\ msgTx.SerType = TxSerializeFull
    /\ \E i \in 1..Len(msgTx.TxIn) :
           msgTx.TxIn[i].SKAValueIn # Nil /\ msgTx.TxIn[i].SKAValueIn[1] > 255
    /\ \E i \in 1..Len(msgTx.TxOut) :
           IsSKA(msgTx.TxOut[i].CoinType) /\ msgTx.TxOut[i].SKAValue[1] > 255
    /\ dec.err = ""
    /\ dec.v = msgTx

\* C4: for a valid transaction in each of the three framings SerializeSize
\* is exactly the number of bytes that serializing it writes, for VAR
\* outputs and for SKA outputs and inputs of any amount, zero included.
C4_SizeExact ==
    (cpc # "start" /\ protoVer >= SKABigIntVersion /\ WellFormed(msgTx))
        => (buf.err = "" /\ size = Len(buf.bytes))

\* a witness-only transaction with a zero SKA input, and a transaction with
\* a zero SKA output, have been serialized
C4_Witness ==
    /\ cpc = "encoded"
    /\ protoVer >= SKABigIntVersion
    /\ WellFormed(msgTx)
    /\ msgTx.SerType = TxSerializeOnlyWitness
    /\ \E i \in 1..Len(msgTx.TxIn) : msgTx.TxIn[i].SKAValueIn = Some(0)
    /\ \E i \in 1..Len(msgTx.TxOut) : msgTx.TxOut[i].SKAValue = Some(0)
    /\ size = Len(buf.bytes)
    /\ size > 0

\* C8 as stated: every output of a transaction CheckTransactionSanity
\* accepts satisfies the field discriminator, and a transaction with an
\* output in any other combination is rejected with BadTxOutValue.
C8_BadOutputAlwaysBadTxOutValue ==
    sanity # "unchecked" =>
        /\ sanity = "" =>
               \A i \in 1..Len(msgTx.TxOut) : FieldDiscriminator(msgTx.TxOut[i])
        /\ (\E i \in 1..Len(msgTx.TxOut) : ~FieldDiscriminator(msgTx.TxOut[i]))
               => sanity = "ErrBadTxOutValue"

\* C8 amended: every output of an accepted transaction satisfies the field
\* discriminator; a transaction with an output in any other combination is
\* rejected, with BadTxOutValue when it has an input and its serialized
\* size is within maxTxSize, and with the error of the earlier check
\* (NoTxInputs, TxTooBig) otherwise.
C8_BadOutputRejected ==
    sanity # "unchecked" =>
        /\ sanity = "" =>
               \A i \in 1..Len(msgTx.TxOut) : FieldDiscriminator(msgTx.TxOut[i])
        /\ (\E i \in 1..Len(msgTx.TxOut) : ~FieldDiscriminator(msgTx.TxOut[i]))
               => sanity = (IF Len(msgTx.TxIn) = 0 THEN "ErrNoTxInputs"
                            ELSE IF SerializeSize(msgTx) > sanityMax
                            THEN "ErrTxTooBig"
                            ELSE "ErrBadTxOutValue")

\* an SKA output that carries a Value beside its SKAValue was rejected
C8_Witness ==
    /\ sanity = "ErrBadTxOutValue"
    /\ \E i \in 1..Len(msgTx.TxOut) :
           /\ IsSKA(msgTx.TxOut[i].CoinType)
           /\ msgTx.TxOut[i].Value # I64(0)
           /\ msgTx.TxOut[i].SKAValue # Nil

----------------------------------------------------------------------------
(* The fee splitter *)

\* the uint16 sum workProportion + stakeProportion, which wraps
AddUint16(a, b) == (a + b) % 65536

\* an entry of a FeesByType map, 0 when the coin type has none
FeeOf(m, c) == IF c \in DOMAIN m THEN m[c] ELSE 0

\* CalcFeeSplitByCoinType, the miner and staker fee of one totalFee
SplitOne(totalFee, workProportion, stakeProportion, adjustedTotal) ==
    LET minerFee == (totalFee * workProportion) \div adjustedTotal
        stakerFee == (totalFee * stakeProportion) \div adjustedTotal
        remainder == totalFee - (minerFee + stakerFee)
    IN [minerFee |-> minerFee + remainder, stakerFee |-> stakerFee]

\* CalcFeeSplitByCoinType: the maps minerFees and stakerFees; an entry of
\* feesByType is Nil or Some(amount)
CalcFeeSplitByCoinType(fees, workProportion, stakeProportion) ==
    LET adjustedTotal == AddUint16(workProportion, stakeProportion)
        split_(c) == SplitOne(fees[c][1], workProportion, stakeProportion,
                              adjustedTotal)
        counted == {c \in DOMAIN fees : fees[c] # Nil /\ fees[c][1] > 0}
        miners == {c \in counted : split_(c).minerFee > 0}
        stakers == {c \in counted : split_(c).stakerFee > 0}
    IN IF adjustedTotal = 0
       THEN [minerFees |-> EmptyMap, stakerFees |-> EmptyMap]
       ELSE [minerFees |-> [c \in miners |-> split_(c).minerFee],
             stakerFees |-> [c \in stakers |-> split_(c).stakerFee]]

\* the fee maps of the blocks split: VAR and SKA fees, zero, negative and
\* nil entries
FeeMaps ==
    { EmptyMap,
      (0 :> Some(100)),
      (0 :> Some(7)) @@ (1 :> Some(3)),
      (1 :> Some(1)) @@ (2 :> Some(1000)),
      (0 :> Some(0)) @@ (1 :> Some(10)),
      (0 :> Nil) @@ (2 :> Some(0 - 5)) @@ (3 :> Some(9)) }

\* the proportions handed in by the subsidy system and the ends of uint16
Proportions == {0, 1, 2, 3, 6, 10, 32768, 65535}

InitFees ==
    /\ feesByType \in FeeMaps
    /\ work \in Proportions
    /\ stake \in Proportions
    /\ split = <<>>
    /\ fpc = "start"
    /\ IdleBurn /\ IdleCodec /\ IdleEmission /\ IdleLock /\ IdlePool
    /\ IdleTrack
    /\ IdleCalc
    /\ IdleCall

\* the fees of a block are split between miners and stakers
SplitFees ==
    /\ fpc = "start"
    /\ split' = CalcFeeSplitByCoinType(feesByType, work, stake)
    /\ fpc' = "split"
    /\ UNCHANGED <<feesByType, work, stake>>
    /\ UNCHANGED exceptFees

NextFees == SplitFees

SpecFees == InitFees /\ [][NextFees]_vars

\* C5: for every fee map and every pair of uint16 proportions with
\* work + stake > 0, and every coin type c with fees[c] > 0, the miner and
\* staker maps returned satisfy miner[c] + staker[c] = fees[c], an absent
\* entry counting as 0.
C5_FeeSplitConserves ==
    (fpc = "split" /\ work + stake > 0) =>
        \A c \in DOMAIN feesByType :
            (feesByType[c] # Nil /\ feesByType[c][1] > 0) =>
                FeeOf(split.minerFees, c) + FeeOf(split.stakerFees, c)
                    = feesByType[c][1]

----------------------------------------------------------------------------
(* SKA emission rules of a block *)

\* wire.CoinTypeSKA, the coin type the emission rules compare outputs with
CoinTypeSKA == 1

\* chaincfg.Params, the fields the emission rules read
Params(emissionHeight, activationHeight, emissionAmount, maxAmount) ==
    [SKAEmissionHeight |-> emissionHeight,
     SKAActivationHeight |-> activationHeight,
     SKAEmissionAmount |-> emissionAmount, SKAMaxAmount |-> maxAmount]

\* an emission rule that takes every block for the emission block
isSKAEmissionBlockAlways(blockHeight, params) == TRUE

\* isSKAEmissionBlock
isSKAEmissionBlock(blockHeight, params) ==
    blockHeight = params.SKAEmissionHeight

\* isSKAActive
isSKAActive(blockHeight, params) == blockHeight >= params.SKAActivationHeight

\* the null-input test of the emission rules
IsNullInput(prevOut) == prevOut.Hash = ZeroHash /\ prevOut.Index = MaxU32

\* the marker test: the signature script has four bytes or more and ends
\* with "SKA"
HasSKAMarker(sigScript) ==
    /\ Len(sigScript) >= 4
    /\ SubSeq(sigScript, Len(sigScript) - 2, Len(sigScript)) = <<83, 75, 65>>

\* the error of a rule: the messages wrapped, nil is <<>>
Errorf(msg) == <<msg>>

RECURSIVE EmissionOutputs(_, _, _, _)
\* ValidateSKAEmissionTransaction, the loop over the outputs: the error, or
\* the total emitted
EmissionOutputs(outs, i, total, params) ==
    IF i > Len(outs) THEN [err |-> <<>>, total |-> total]
    ELSE IF outs[i].CoinType # CoinTypeSKA
    THEN [err |-> Errorf("output is not SKA coin type"), total |-> total]
    ELSE IF ~I64Less(I64(0), outs[i].Value)
    THEN [err |-> Errorf("output has invalid amount"), total |-> total]
    ELSE IF I64Less(params.SKAMaxAmount, outs[i].Value)
    THEN [err |-> Errorf("output exceeds maximum"), total |-> total]
    ELSE EmissionOutputs(outs, i + 1, I64Add(total, outs[i].Value), params)

\* ValidateSKAEmissionTransaction: the error, <<>> when the transaction is a
\* valid emission at blockHeight
ValidateSKAEmissionTransaction(tx, blockHeight, params) ==
    IF ~isSKAEmissionBlock(blockHeight, params)
    THEN Errorf("SKA emission transaction at invalid height")
    ELSE IF Len(tx.TxIn) # 1
    THEN Errorf("SKA emission transaction must have exactly 1 input")
    ELSE IF Len(tx.TxOut) = 0
    THEN Errorf("SKA emission transaction must have at least 1 output")
    ELSE IF ~IsNullInput(tx.TxIn[1].PreviousOutPoint)
    THEN Errorf("SKA emission transaction input is not null")
    ELSE IF ~HasSKAMarker(tx.TxIn[1].SignatureScript)
    THEN Errorf("SKA emission transaction missing SKA marker")
    ELSE IF EmissionOutputs(tx.TxOut, 1, I64(0), params).err # <<>>
    THEN EmissionOutputs(tx.TxOut, 1, I64(0), params).err
    ELSE IF EmissionOutputs(tx.TxOut, 1, I64(0), params).total
                # params.SKAEmissionAmount
    THEN Errorf("SKA emission total does not match chain parameter")
    ELSE IF tx.LockTime # U32(0)
    THEN Errorf("SKA emission transaction must have LockTime 0")
    ELSE IF tx.Expiry # U32(0)
    THEN Errorf("SKA emission transaction must have Expiry 0")
    ELSE <<>>

\* IsSKAEmissionTransaction
IsSKAEmissionTransaction(tx) ==
    /\ Len(tx.TxIn) = 1
    /\ Len(tx.TxOut) # 0
    /\ IsNullInput(tx.TxIn[1].PreviousOutPoint)
    /\ HasSKAMarker(tx.TxIn[1].SignatureScript)
    /\ \A i \in 1..Len(tx.TxOut) : tx.TxOut[i].CoinType = CoinTypeSKA

\* CheckSKAEmissionInBlock, the test that counts a transaction in skaTxCount
HasSKAOutput(tx) ==
    /\ ~IsSKAEmissionTransaction(tx)
    /\ \E i \in 1..Len(tx.TxOut) : tx.TxOut[i].CoinType = CoinTypeSKA

RECURSIVE CheckTransactions(_, _, _, _, _, _)
\* CheckSKAEmissionInBlock, the loop over the transactions: the error of the
\* first emission transaction that is not valid, or the two counts
CheckTransactions(txs, i, emissionTxCount, skaTxCount, blockHeight, params) ==
    IF i > Len(txs)
    THEN [err |-> <<>>, emissionTxCount |-> emissionTxCount,
          skaTxCount |-> skaTxCount]
    ELSE IF /\ IsSKAEmissionTransaction(txs[i])
            /\ ValidateSKAEmissionTransaction(txs[i], blockHeight, params) # <<>>
    THEN [err |-> Errorf("invalid SKA emission transaction")
                    \o ValidateSKAEmissionTransaction(txs[i], blockHeight, params),
          emissionTxCount |-> emissionTxCount + 1, skaTxCount |-> skaTxCount]
    ELSE CheckTransactions(txs, i + 1,
             emissionTxCount + (IF IsSKAEmissionTransaction(txs[i]) THEN 1 ELSE 0),
             skaTxCount + (IF HasSKAOutput(txs[i]) THEN 1 ELSE 0),
             blockHeight, params)

\* CheckSKAEmissionInBlock, the rules on the two counts
CheckCounts(counts, blockHeight, params) ==
    IF counts.err # <<>> THEN counts.err
    ELSE IF isSKAEmissionBlock(blockHeight, params) /\ counts.emissionTxCount # 1
    THEN Errorf("SKA emission block must contain exactly 1 emission transaction")
    ELSE IF ~isSKAEmissionBlock(blockHeight, params) /\ counts.emissionTxCount > 0
    THEN Errorf("block contains SKA emission transactions but is not emission block")
    ELSE IF /\ ~isSKAActive(blockHeight, params)
            /\ ~isSKAEmissionBlock(blockHeight, params)
            /\ counts.skaTxCount > 0
    THEN Errorf("SKA transactions not allowed before activation height")
    ELSE <<>>

\* CheckSKAEmissionInBlock: the error, <<>> when the block is accepted
CheckSKAEmissionInBlock(block, blockHeight, params) ==
    CheckCounts(CheckTransactions(block, 1, 0, 0, blockHeight, params),
                blockHeight, params)

\* heights of the blocks checked
MaxChkHeight == 4

\* transactions of a block checked
MaxBlockTxs == 2

\* an SKA output of the emission rules, its amount in Value
EmissionOut(n) == TxOut(CoinTypeSKA, I64(n), Nil, 0, PlainScript)

\* a transaction of the emission shape with outputs outs
EmissionTx(outs, lockTime) ==
    MsgTx(TxSerializeFull, 1, <<TxInNull>>, outs, lockTime, U32(0))

\* the transactions of the blocks checked
BlockTxs ==
    { \* the emission of the whole amount, in one output and in two
      EmissionTx(<<EmissionOut(10)>>, U32(0)),
      EmissionTx(<<EmissionOut(4), EmissionOut(6)>>, U32(0)),
      \* the emission shape with a wrong total, and with a lock time
      EmissionTx(<<EmissionOut(5)>>, U32(0)),
      EmissionTx(<<EmissionOut(10)>>, U32(500)),
      \* a null input with the marker that also pays VAR
      EmissionTx(<<EmissionOut(10), VarOut(1, PlainScript)>>, U32(0)),
      \* an SKA transfer and a VAR transfer
      MsgTx(TxSerializeFull, 1, <<TxInVar>>, <<EmissionOut(3)>>, U32(0), U32(0)),
      MsgTx(TxSerializeFull, 1, <<TxInVar>>, <<VarOut(100, PlainScript)>>,
            U32(0), U32(0)) }

\* the blocks checked
CheckedBlocks ==
    UNION { [1..n -> BlockTxs] : n \in 1..MaxBlockTxs }

\* chain parameters: emission below, at and above activation
ChainParams ==
    { Params(2, 3, I64(10), I64(10)), Params(2, 2, I64(10), I64(10)),
      Params(3, 1, I64(10), I64(10)), Params(1, 4, I64(10), I64(6)) }

InitEmission ==
    /\ chainParams \in ChainParams
    /\ chkBlock \in CheckedBlocks
    /\ chkHeight \in 1..MaxChkHeight
    /\ emissionErr = <<>>
    /\ epc = "start"
    /\ IdleBurn /\ IdleCodec /\ IdleFees /\ IdleLock /\ IdlePool /\ IdleCall
    /\ IdleTrack
    /\ IdleCalc

\* the emission rules are checked for the block at its height
CheckBlock ==
    /\ epc = "start"
    /\ emissionErr' = CheckSKAEmissionInBlock(chkBlock, chkHeight, chainParams)
    /\ epc' = "checked"
    /\ UNCHANGED <<chainParams, chkBlock, chkHeight>>
    /\ UNCHANGED exceptEmission

NextEmission == CheckBlock

SpecEmission == InitEmission /\ [][NextEmission]_vars

----------------------------------------------------------------------------
(* Claims about the emission rules *)

\* the emission transactions of the block checked
EmissionTxs == {i \in 1..Len(chkBlock) : IsSKAEmissionTransaction(chkBlock[i])}

\* C6: CheckSKAEmissionInBlock accepts a block at height h only if it holds
\* exactly one SKA emission transaction when h is the emission height and
\* none when it is not; a block with an emission-shaped transaction at any
\* other height is rejected with an "invalid height" error.
C6_EmissionOnlyAtHeight ==
    epc = "checked" =>
        /\ emissionErr = <<>> =>
               Cardinality(EmissionTxs)
                   = (IF chkHeight = chainParams.SKAEmissionHeight THEN 1 ELSE 0)
        /\ (chkHeight # chainParams.SKAEmissionHeight /\ EmissionTxs # {}) =>
               emissionErr = <<"invalid SKA emission transaction",
                               "SKA emission transaction at invalid height">>

\* a block with one emission was accepted at the emission height, beside a
\* second transaction
C6_Witness ==
    /\ epc = "checked"
    /\ chkHeight = chainParams.SKAEmissionHeight
    /\ Cardinality(EmissionTxs) = 1
    /\ Len(chkBlock) = 2
    /\ emissionErr = <<>>

\* C7: every block below the activation height that holds a transaction
\* with an SKA output, other than the emission transaction itself, is
\* rejected, at the emission height too when it lies below activation.
C7_NoSKABeforeActivation ==
    (/\ epc = "checked"
     /\ chkHeight < chainParams.SKAActivationHeight
     /\ \E i \in 1..Len(chkBlock) : HasSKAOutput(chkBlock[i]))
        => emissionErr # <<>>

----------------------------------------------------------------------------
(* The burn ledger under its lock and inside database transactions:
   src/internal/blockchain/validate_dual_test.go:325-588.  One goroutine
   applies blocks, each inside a database transaction of its own that the
   host commits or rolls back after the call returned; another goroutine
   reads the ledger. *)

\* database transactions the host begins
MaxCalls == 2

\* sync.RWMutex, nobody holding it
Unlocked == [writer |-> FALSE, readers |-> 0]

\* an RLock that does not wait for the writer
CanRLockAlways(m) == TRUE

\* s.mtx.RLock() returns when no writer holds the lock
CanRLock(m) == ~m.writer

\* s.mtx.Lock() returns when nobody holds the lock
CanLock(m) == ~m.writer /\ m.readers = 0

\* GetBurnedAmount: a copy of the total, nil when the coin type is absent
GetBurnedAmount(m, coinType) ==
    IF coinType \in DOMAIN m THEN Some(m[coinType]) ELSE Nil

\* the steps of saveWithTx that can return an error
SaveSteps == {"DeleteBucket", "CreateBucket", "PutVersion", "PutAmount"}

\* saveWithTx returning an error at the given step: the bucket the
\* transaction is left with, put holding the coin types already written
saveWithTxFailed(d, m, step, put) ==
    IF step = "DeleteBucket" THEN d
    ELSE IF step = "CreateBucket" THEN NoBucket
    ELSE IF step = "PutVersion" THEN [exists |-> TRUE, kv |-> EmptyMap]
    ELSE [exists |-> TRUE,
          kv |-> [k \in {skaBurnStateVersionKey} \cup {<<c>> : c \in put} |->
                     IF k = skaBurnStateVersionKey
                     THEN PutLE(skaBurnStateFormatVersion, 4)
                     ELSE BytesBE(m[k[1]])]]

\* the coin types saveWithTx writes
SavedCoins(m) == {c \in DOMAIN m : m[c] # 0}

\* the databases a running node was started on
StartDisks ==
    { NoBucket,
      Bucket(Some(PutLE(2, 4)), (<<1>> :> <<5>>)),
      Bucket(Nil, (<<1>> :> I64(0)) @@ (<<2>> :> I64(300))) }

\* a call of the reader
ReaderCall(fn, coinType) == [fn |-> fn, coinType |-> coinType]

\* the calls a reader makes
ReaderCalls ==
    { ReaderCall("GetAllBurnedAmounts", 0),
      ReaderCall("GetBurnedAmount", 1),
      ReaderCall("GetBurnedAmount", 2) }

\* burn state variables the locked ledger does not use
burnRest == <<bpc, snapBurned, snapDisk, touched, lastOp>>

readerVars == <<rpc, rcall, got>>

InitLock ==
    /\ disk \in StartDisks
    /\ burned = load(disk).burned
    /\ prevBurned = burned
    /\ stack = <<>>
    /\ height = 0
    /\ bpc = "idle" /\ snapBurned = <<>> /\ snapDisk = <<>> /\ touched = FALSE
    /\ lastOp = "none"
    /\ mtx = Unlocked
    /\ wpc = "idle"
    /\ wop = "none"
    /\ wblock = <<>>
    /\ todo = <<>>
    /\ dbTx = Nil
    /\ callErr = ""
    /\ ncalls = 0
    /\ rpc = "idle"
    /\ rcall = ReaderCall("none", 0)
    /\ got = <<>>
    /\ IdleCodec /\ IdleFees /\ IdleEmission /\ IdlePool /\ IdleCall
    /\ IdleTrack
    /\ IdleCalc

\* the host opens a database transaction for block b and calls
\* ConnectSKABurnsTx: without burns the call returns at once
BeginConnect(b) ==
    /\ wpc = "idle"
    /\ ncalls < MaxCalls
    /\ ncalls' = ncalls + 1
    /\ dbTx' = Some(disk)
    /\ wop' = "connect"
    /\ wblock' = b
    /\ todo' = extractSKABurnsFromBlock(b, height + 1)
    /\ wpc' = IF Len(todo') = 0 THEN "returned" ELSE "lock"
    /\ callErr' = ""
    /\ prevBurned' = burned
    /\ UNCHANGED <<burned, disk, stack, height, mtx, readerVars, burnRest>>
    /\ UNCHANGED exceptLock

\* the host opens a database transaction and calls DisconnectSKABurnsTx
\* for the tip block
BeginDisconnect ==
    /\ wpc = "idle"
    /\ ncalls < MaxCalls
    /\ stack # <<>>
    /\ ncalls' = ncalls + 1
    /\ dbTx' = Some(disk)
    /\ wop' = "disconnect"
    /\ wblock' = stack[Len(stack)]
    /\ todo' = extractSKABurnsFromBlock(stack[Len(stack)], height)
    /\ wpc' = IF Len(todo') = 0 THEN "returned" ELSE "lock"
    /\ callErr' = ""
    /\ prevBurned' = burned
    /\ UNCHANGED <<burned, disk, stack, height, mtx, readerVars, burnRest>>
    /\ UNCHANGED exceptLock

\* the host calls Clear, outside any database transaction
BeginClear ==
    /\ wpc = "idle"
    /\ ncalls < MaxCalls
    /\ ncalls' = ncalls + 1
    /\ wop' = "clear"
    /\ wblock' = <<>>
    /\ todo' = <<>>
    /\ wpc' = "lock"
    /\ callErr' = ""
    /\ prevBurned' = burned
    /\ UNCHANGED <<burned, disk, stack, height, mtx, dbTx, readerVars, burnRest>>
    /\ UNCHANGED exceptLock

\* s.mtx.Lock()
Lock ==
    /\ wpc = "lock"
    /\ CanLock(mtx)
    /\ mtx' = [mtx EXCEPT !.writer = TRUE]
    /\ wpc' = IF wop = "clear" THEN "clear" ELSE "loop"
    /\ UNCHANGED <<burned, disk, stack, height, prevBurned, wop, wblock, todo,
                   dbTx, callErr, ncalls, readerVars, burnRest>>
    /\ UNCHANGED exceptLock

\* one iteration of the loop over burns
ApplyBurn ==
    /\ wpc = "loop"
    /\ todo # <<>>
    /\ burned' = IF wop = "connect" THEN AddBurn(burned, Head(todo))
                 ELSE SubBurn(burned, Head(todo))
    /\ todo' = Tail(todo)
    /\ UNCHANGED <<disk, stack, height, prevBurned, mtx, wpc, wop, wblock, dbTx,
                   callErr, ncalls, readerVars, burnRest>>
    /\ UNCHANGED exceptLock

\* return s.saveWithTx(dbTx), the ledger written to the transaction
Save ==
    /\ wpc = "loop"
    /\ todo = <<>>
    /\ dbTx' = Some(saveWithTx(burned))
    /\ callErr' = ""
    /\ wpc' = "unlock"
    /\ UNCHANGED <<burned, disk, stack, height, prevBurned, mtx, wop, wblock,
                   todo, ncalls, readerVars, burnRest>>
    /\ UNCHANGED exceptLock

\* return s.saveWithTx(dbTx), a database call returning an error
SaveFails(step, put) ==
    /\ wpc = "loop"
    /\ todo = <<>>
    /\ step = "DeleteBucket" => dbTx[1].exists
    /\ dbTx' = Some(saveWithTxFailed(dbTx[1], burned, step, put))
    /\ callErr' = step
    /\ wpc' = "unlock"
    /\ UNCHANGED <<burned, disk, stack, height, prevBurned, mtx, wop, wblock,
                   todo, ncalls, readerVars, burnRest>>
    /\ UNCHANGED exceptLock

\* Clear: s.burned = make(map)
ClearMemory ==
    /\ wpc = "clear"
    /\ burned' = EmptyMap
    /\ wpc' = "update"
    /\ UNCHANGED <<disk, stack, height, prevBurned, mtx, wop, wblock, todo, dbTx,
                   callErr, ncalls, readerVars, burnRest>>
    /\ UNCHANGED exceptLock

\* Clear: return s.db.Update(...), a transaction of its own that deletes
\* the bucket and commits, or returns an error and changes nothing
ClearUpdate(ok) ==
    /\ wpc = "update"
    /\ disk' = IF ok THEN NoBucket ELSE disk
    /\ callErr' = IF ok THEN "" ELSE "Update"
    /\ stack' = <<>>
    /\ wpc' = "unlock"
    /\ UNCHANGED <<burned, height, prevBurned, mtx, wop, wblock, todo, dbTx,
                   ncalls, readerVars, burnRest>>
    /\ UNCHANGED exceptLock

\* the deferred s.mtx.Unlock(); the call returns
Unlock ==
    /\ wpc = "unlock"
    /\ mtx' = [mtx EXCEPT !.writer = FALSE]
    /\ wpc' = IF wop = "clear" THEN "idle" ELSE "returned"
    /\ UNCHANGED <<burned, disk, stack, height, prevBurned, wop, wblock, todo,
                   dbTx, callErr, ncalls, readerVars, burnRest>>
    /\ UNCHANGED exceptLock

\* the host commits the database transaction after a call that returned nil
Commit ==
    /\ wpc = "returned"
    /\ callErr = ""
    /\ disk' = dbTx[1]
    /\ dbTx' = Nil
    /\ stack' = IF wop = "connect" THEN Append(stack, wblock)
                ELSE SubSeq(stack, 1, Len(stack) - 1)
    /\ height' = IF wop = "connect" THEN height + 1 ELSE height - 1
    /\ wpc' = "idle"
    /\ UNCHANGED <<burned, prevBurned, mtx, wop, wblock, todo, callErr, ncalls,
                   readerVars, burnRest>>
    /\ UNCHANGED exceptLock

\* the host rolls the database transaction back: after an error of the
\* call, or because another step of the block application failed
Rollback ==
    /\ wpc = "returned"
    /\ dbTx' = Nil
    /\ wpc' = "idle"
    /\ UNCHANGED <<burned, disk, stack, height, prevBurned, mtx, wop, wblock,
                   todo, callErr, ncalls, readerVars, burnRest>>
    /\ UNCHANGED exceptLock

\* GetBurnedAmount or GetAllBurnedAmounts: s.mtx.RLock()
RLock(call) ==
    /\ rpc = "idle"
    /\ CanRLock(mtx)
    /\ mtx' = [mtx EXCEPT !.readers = mtx.readers + 1]
    /\ rcall' = call
    /\ rpc' = "locked"
    /\ UNCHANGED <<burned, disk, stack, height, prevBurned, wpc, wop, wblock,
                   todo, dbTx, callErr, ncalls, got, burnRest>>
    /\ UNCHANGED exceptLock

\* the ledger as the reader's call returns it
ReadLedger(m, call) ==
    IF call.fn = "GetAllBurnedAmounts" THEN GetAllBurnedAmounts(m)
    ELSE GetBurnedAmount(m, call.coinType)

\* the reader copies what it was asked for
ReadBurned ==
    /\ rpc = "locked"
    /\ got' = ReadLedger(burned, rcall)
    /\ rpc' = "read"
    /\ UNCHANGED <<burned, disk, stack, height, prevBurned, mtx, wpc, wop,
                   wblock, todo, dbTx, callErr, ncalls, rcall, burnRest>>
    /\ UNCHANGED exceptLock

\* the deferred s.mtx.RUnlock(); the call returns
RUnlock ==
    /\ rpc = "read"
    /\ mtx' = [mtx EXCEPT !.readers = mtx.readers - 1]
    /\ rpc' = "idle"
    /\ UNCHANGED <<burned, disk, stack, height, prevBurned, wpc, wop, wblock,
                   todo, dbTx, callErr, ncalls, rcall, got, burnRest>>
    /\ UNCHANGED exceptLock

NextLock ==
    \/ \E b \in Blocks : BeginConnect(b)
    \/ BeginDisconnect
    \/ BeginClear
    \/ Lock
    \/ ApplyBurn
    \/ Save
    \/ \E step \in SaveSteps :
           \E put \in (IF step = "PutAmount"
                       THEN SUBSET SavedCoins(burned) \ {SavedCoins(burned)}
                       ELSE {{}}) :
               SaveFails(step, put)
    \/ ClearMemory
    \/ \E ok \in BOOLEAN : ClearUpdate(ok)
    \/ Unlock
    \/ Commit
    \/ Rollback
    \/ \E call \in ReaderCalls : RLock(call)
    \/ ReadBurned
    \/ RUnlock

SpecLock == InitLock /\ [][NextLock]_vars

----------------------------------------------------------------------------
(* Claims about the locked burn ledger *)

\* the ledger persisted by the most recently committed database transaction
Committed == load(disk).burned

\* C11: what a GetBurnedAmount or GetAllBurnedAmounts call has read under
\* the read lock is the totals of the ledger persisted by the most recently
\* committed database transaction, never those of a transaction that has
\* not committed or was rolled back.
C11_ReadsCommitted ==
    rpc = "read" => got = ReadLedger(Committed, rcall)

\* the burns of the call in progress
CallBurns ==
    IF wop = "connect" THEN extractSKABurnsFromBlock(wblock, height + 1)
    ELSE IF wop = "disconnect" THEN extractSKABurnsFromBlock(wblock, height)
    ELSE <<>>

\* the ledger before the call with all burns of the call applied
WholeCall ==
    IF wop = "connect" THEN AddBurns(prevBurned, CallBurns)
    ELSE IF wop = "disconnect" THEN SubBurns(prevBurned, CallBurns)
    ELSE EmptyMap

\* C12: while a reader holds the read lock no ConnectSKABurnsTx,
\* DisconnectSKABurnsTx or Clear call is between taking the write lock and
\* its return; the ledger the reader sees has either none or all of the
\* call's burns applied, and after a call that returned nil the open
\* database transaction holds the image of exactly that ledger.
C12_WriteLockHeld ==
    mtx.readers > 0 =>
        /\ ~mtx.writer
        /\ wpc \in {"idle", "lock", "returned"}
        /\ wpc = "lock" => burned = prevBurned
        /\ wpc = "returned" =>
               /\ burned = WholeCall
               /\ (callErr = "" /\ Len(CallBurns) > 0)
                      => dbTx = Some(saveWithTx(burned))

\* a reader read the ledger after a call that applied two burns of one coin
\* type and one of another had returned
C12_Witness ==
    /\ rpc = "read"
    /\ rcall.fn = "GetAllBurnedAmounts"
    /\ wpc = "returned"
    /\ wop = "connect"
    /\ Len(CallBurns) = 3
    /\ callErr = ""
    /\ got = WholeCall
    /\ got # prevBurned

\* C19: when ConnectSKABurnsTx or DisconnectSKABurnsTx returns an error
\* because writing to dbTx failed, the in-memory ledger is the ledger from
\* before the call.
C19_ErrorLeavesLedger ==
    (wpc = "returned" /\ callErr # "") => burned = prevBurned

\* C20: after any sequence of successful, committed ConnectSKABurnsTx and
\* DisconnectSKABurnsTx calls, load on the database succeeds and yields the
\* ledger the running instance holds in memory, the same coin types with
\* the same totals.
C20_RestartSameLedger ==
    bpc = "ready" => load(disk) = [ok |-> TRUE, burned |-> burned]

\* the sum of the amounts the burns of a call carry for coin type c
RECURSIVE BurnTotal(_, _)
BurnTotal(burns, c) ==
    IF burns = <<>> THEN 0
    ELSE (IF Head(burns).CoinType = c THEN Head(burns).Amount ELSE 0)
             + BurnTotal(Tail(burns), c)

\* the coin types a successful DisconnectSKABurnsTx call brought to a total
\* of zero or less: they had an entry and the call carried a burn for them
Exhausted ==
    { c \in DOMAIN prevBurned :
          /\ \E i \in 1..Len(CallBurns) : CallBurns[i].CoinType = c
          /\ prevBurned[c] - BurnTotal(CallBurns, c) <= 0 }

\* C21: when DisconnectSKABurnsTx has returned nil, a coin type whose total
\* the call's burns brought to zero or less has no entry in the in-memory
\* ledger and no key in the bucket the call wrote; disconnecting the block
\* whose only burn made up the whole ledger leaves the ledger empty.
C21_ExhaustedRemoved ==
    (wop = "disconnect" /\ wpc = "returned" /\ callErr = "" /\ CallBurns # <<>>) =>
        /\ \A c \in Exhausted :
               c \notin DOMAIN burned /\ <<c>> \notin DOMAIN dbTx[1].kv
        /\ (Len(CallBurns) = 1 /\ DOMAIN prevBurned = {CallBurns[1].CoinType}
                /\ prevBurned[CallBurns[1].CoinType] = CallBurns[1].Amount) =>
               burned = EmptyMap

\* a block with one SKA-1 burn was connected to an empty ledger and
\* committed, then disconnected
C21_Witness ==
    /\ wop = "disconnect" /\ wpc = "returned" /\ callErr = ""
    /\ stack = <<wblock>>
    /\ Len(CallBurns) = 1
    /\ CallBurns[1].CoinType = 1 /\ CallBurns[1].Amount > 0
    /\ prevBurned = (1 :> CallBurns[1].Amount)
    /\ Exhausted = {1}
    /\ burned = EmptyMap
    /\ dbTx = Some(Bucket(Some(PutLE(skaBurnStateFormatVersion, 4)), EmptyMap))

\* no total of the ledger before is lower or missing in the ledger after
NotLowered(before, after) ==
    \A c \in DOMAIN before : c \in DOMAIN after /\ after[c] >= before[c]

\* C22 as stated: while the last call started is not DisconnectSKABurnsTx,
\* no coin type's total is lower than before that call or removed.
C22_OnlyDisconnectLowers == wop # "disconnect" => NotLowered(prevBurned, burned)

\* C22 amended: while the last call started is ConnectSKABurnsTx, or none
\* since the ledger was loaded, no coin type's total is lower than before
\* or removed, whatever the readers do; once Clear has reset the map the
\* ledger is empty.
C22_ConnectNeverLowers ==
    /\ wop \in {"none", "connect"} => NotLowered(prevBurned, burned)
    /\ (wop = "clear" /\ wpc \in {"update", "unlock", "idle"}) => burned = EmptyMap

\* a connect raised the total of SKA-1 while a reader holds a copy of the
\* ledger read after it
C22_Witness ==
    /\ wop = "connect" /\ wpc = "returned"
    /\ 1 \in DOMAIN prevBurned
    /\ burned[1] > prevBurned[1]
    /\ rpc = "read" /\ rcall.fn = "GetAllBurnedAmounts"
    /\ got = burned

----------------------------------------------------------------------------
(* The script free list while BtcDecode runs: src/wire/go.mod:383-470,
   894-957, 961-1198.  The reader r may fail at any read; what is followed
   is every script buffer from Borrow to Return. *)

freeListMaxScriptSize == 512

freeListMaxItems == 12500

\* inputs and outputs of a decoded transaction
MaxScripts == 2

\* a byte slice: its memory, its capacity and length.  A positive id is the
\* loan of a buffer the free list made, 0 a buffer of its own made for a
\* script longer than the free list holds, a negative id a slice of the
\* contiguous allocation of a transaction.
Buffer(id, cap, len) == [id |-> id, cap |-> cap, len |-> len]

\* the slice for script k of the contiguous allocation made by decode alloc
SliceId(alloc, k) == 0 - (alloc * 16 + k)

\* the free list, a channel: the number of idle buffers at its head, which
\* the free list made; the buffers sent after a slice of a transaction was
\* sent (0 for a buffer the free list made, the id of a slice); the loans
\* outstanding and the number of the next loan
FreeList(free, tail, loans, next) ==
    [free |-> free, tail |-> tail, loans |-> loans, next |-> next]

\* scriptFreeList.Borrow: [pool, buf]
Borrow(p, n) ==
    IF n > freeListMaxScriptSize
    THEN [pool |-> p, buf |-> Buffer(0, n, n)]
    ELSE IF p.free > 0
    THEN [pool |-> FreeList(p.free - 1, p.tail, p.loans \cup {p.next}, p.next + 1),
          buf |-> Buffer(p.next, freeListMaxScriptSize, n)]
    ELSE IF p.tail # <<>> /\ Head(p.tail) < 0
    THEN [pool |-> FreeList(0, Tail(p.tail), p.loans \cup {Head(p.tail)}, p.next),
          buf |-> Buffer(Head(p.tail), freeListMaxScriptSize, n)]
    ELSE [pool |-> FreeList(0, IF p.tail # <<>> THEN Tail(p.tail) ELSE <<>>,
                            p.loans \cup {p.next}, p.next + 1),
          buf |-> Buffer(p.next, freeListMaxScriptSize, n)]

\* scriptFreeList.Return
Return(p, b) ==
    IF b.cap # freeListMaxScriptSize THEN p
    ELSE IF p.free + Len(p.tail) >= freeListMaxItems
    THEN FreeList(p.free, p.tail, p.loans \ {b.id}, p.next)
    ELSE IF p.tail = <<>> /\ b.id > 0
    THEN FreeList(p.free + 1, <<>>, p.loans \ {b.id}, p.next)
    ELSE FreeList(p.free, Append(p.tail, IF b.id > 0 THEN 0 ELSE b.id),
                  p.loans \ {b.id}, p.next)

\* what the reader does to one count
CountRead(kind, n) == [kind |-> kind, n |-> n]

CountReads ==
    {CountRead("err", 0), CountRead("tooMany", 0)}
        \cup {CountRead("ok", n) : n \in 0..MaxScripts}

\* what the reader does to one input or output: a fixed field fails, the
\* script length fails or is too long, the script bytes end early, or the
\* script of the given size is read
ScriptRead(kind, n) == [kind |-> kind, size |-> n]

ScriptSizes == {0, 25, 513}

ScriptReads ==
    {ScriptRead("fieldErr", 0), ScriptRead("varIntErr", 0),
     ScriptRead("tooLong", 0)}
        \cup {ScriptRead(k, n) : k \in {"short", "ok"}, n \in ScriptSizes}

\* readScript, after the buffer was borrowed: [pool, script, err]
readBorrowed(b, read) ==
    IF read.kind = "short"
    THEN [pool |-> Return(b.pool, b.buf), script |-> Nil, err |-> "EOF"]
    ELSE [pool |-> b.pool, script |-> Some(b.buf), err |-> ""]

\* readTxOut and readTxInWitness, whose last read is readScript:
\* [pool, script, err]
readPooledScript(p, read) ==
    IF read.kind \in {"fieldErr", "varIntErr"}
    THEN [pool |-> p, script |-> Nil, err |-> "EOF"]
    ELSE IF read.kind = "tooLong"
    THEN [pool |-> p, script |-> Nil, err |-> "ErrVarBytesTooLong"]
    ELSE readBorrowed(Borrow(p, read.size), read)

RECURSIVE ReturnAll(_, _)
\* the loops of returnScriptBuffers: every script that is not nil goes back
ReturnAll(p, scripts) ==
    IF scripts = <<>> THEN p
    ELSE ReturnAll(IF Head(scripts) = Nil THEN p ELSE Return(p, Head(scripts)[1]),
                   Tail(scripts))

\* an error path that gives back the output scripts only
returnScriptBuffersOutputsOnly(p, txIn, txOut) == ReturnAll(p, txOut)

\* returnScriptBuffers
returnScriptBuffers(p, txIn, txOut) == ReturnAll(ReturnAll(p, txIn), txOut)

\* writeTxScriptsToMsgTx, the scripts moved to the contiguous allocation:
\* script i becomes the slice scripts[offset:end:end], whose capacity is its
\* length
Contiguous(scripts, alloc, first) ==
    [i \in 1..Len(scripts) |->
        IF scripts[i] = Nil THEN Some(Buffer(SliceId(alloc, first + i), 0, 0))
        ELSE Some(Buffer(SliceId(alloc, first + i), scripts[i][1].len,
                         scripts[i][1].len))]

\* writeTxScriptsToMsgTx: [pool, txIn, txOut]; alloc numbers the allocation
writeTxScriptsToMsgTx(p, txIn, txOut, serType, alloc) ==
    IF serType = TxSerializeNoWitness
    THEN [pool |-> ReturnAll(p, txOut), txIn |-> txIn,
          txOut |-> Contiguous(txOut, alloc, 8)]
    ELSE [pool |-> ReturnAll(ReturnAll(p, txIn), txOut),
          txIn |-> Contiguous(txIn, alloc, 0),
          txOut |-> Contiguous(txOut, alloc, 8)]

\* the free list when a decode starts
StartPools == {FreeList(f, <<>>, {}, 1) : f \in {0, 1, freeListMaxItems}}

\* make([]*TxIn, count)
NilScripts(n) == [i \in 1..n |-> Nil]

InitPool ==
    /\ scriptPool \in StartPools
    /\ dpc = "version"
    /\ dSerType = 0
    /\ dTxIn = <<>>
    /\ dTxOut = <<>>
    /\ didx = 0
    /\ dErr = ""
    /\ ndecodes = 1
    /\ IdleBurn /\ IdleCodec /\ IdleFees /\ IdleEmission /\ IdleLock
    /\ IdleTrack
    /\ IdleCalc
    /\ IdleCall

\* BtcDecode reads the version word: a read error and an unknown
\* serialization type return at once
DecodeVersion(ok, serType) ==
    /\ dpc = "version"
    /\ dSerType' = IF ok THEN serType ELSE dSerType
    /\ dErr' = IF ~ok THEN "EOF"
               ELSE IF serType \in {TxSerializeNoWitness, TxSerializeOnlyWitness,
                                    TxSerializeFull}
               THEN "" ELSE "ErrUnknownTxType"
    /\ dpc' = IF dErr' # "" THEN "done"
              ELSE IF serType = TxSerializeOnlyWitness THEN "witness"
              ELSE "prefix"
    /\ UNCHANGED <<scriptPool, dTxIn, dTxOut, didx>>
    /\ UNCHANGED <<ndecodes>>
    /\ UNCHANGED exceptPool

\* decodePrefix: the input count
PrefixTxInCount(read) ==
    /\ dpc = "prefix"
    /\ dErr' = IF read.kind = "err" THEN "EOF"
               ELSE IF read.kind = "tooMany" THEN "ErrTooManyTxs" ELSE ""
    /\ dTxIn' = IF read.kind = "ok" THEN NilScripts(read.n) ELSE dTxIn
    /\ didx' = 0
    /\ dpc' = IF read.kind = "ok" THEN "txIn" ELSE "fail"
    /\ UNCHANGED <<scriptPool, dSerType, dTxOut>>
    /\ UNCHANGED <<ndecodes>>
    /\ UNCHANGED exceptPool

\* decodePrefix: readTxInPrefix of input i, which reads no script
PrefixTxIn(ok) ==
    /\ dpc = "txIn"
    /\ didx < Len(dTxIn)
    /\ didx' = IF ok THEN didx + 1 ELSE didx
    /\ dErr' = IF ok THEN "" ELSE "EOF"
    /\ dpc' = IF ok THEN "txIn" ELSE "fail"
    /\ UNCHANGED <<scriptPool, dSerType, dTxIn, dTxOut>>
    /\ UNCHANGED <<ndecodes>>
    /\ UNCHANGED exceptPool

\* decodePrefix: the output count
PrefixTxOutCount(read) ==
    /\ dpc = "txIn"
    /\ didx = Len(dTxIn)
    /\ dErr' = IF read.kind = "err" THEN "EOF"
               ELSE IF read.kind = "tooMany" THEN "ErrTooManyTxs" ELSE ""
    /\ dTxOut' = IF read.kind = "ok" THEN NilScripts(read.n) ELSE dTxOut
    /\ didx' = 0
    /\ dpc' = IF read.kind = "ok" THEN "txOut" ELSE "fail"
    /\ UNCHANGED <<scriptPool, dSerType, dTxIn>>
    /\ UNCHANGED <<ndecodes>>
    /\ UNCHANGED exceptPool

\* decodePrefix: readTxOut of output i
PrefixTxOut(read) ==
    /\ dpc = "txOut"
    /\ didx < Len(dTxOut)
    /\ scriptPool' = readPooledScript(scriptPool, read).pool
    /\ dTxOut' = [dTxOut EXCEPT
                     ![didx + 1] = readPooledScript(scriptPool, read).script]
    /\ dErr' = readPooledScript(scriptPool, read).err
    /\ didx' = IF dErr' = "" THEN didx + 1 ELSE didx
    /\ dpc' = IF dErr' = "" THEN "txOut" ELSE "fail"
    /\ UNCHANGED <<dSerType, dTxIn>>
    /\ UNCHANGED <<ndecodes>>
    /\ UNCHANGED exceptPool

\* decodePrefix: lock time and expiry; BtcDecode goes on with the witness of
\* a full transaction
PrefixTail(ok) ==
    /\ dpc = "txOut"
    /\ didx = Len(dTxOut)
    /\ dErr' = IF ok THEN "" ELSE "EOF"
    /\ dpc' = IF ~ok THEN "fail"
              ELSE IF dSerType = TxSerializeFull THEN "witness" ELSE "write"
    /\ didx' = 0
    /\ UNCHANGED <<scriptPool, dSerType, dTxIn, dTxOut>>
    /\ UNCHANGED <<ndecodes>>
    /\ UNCHANGED exceptPool

\* decodeWitness: the count, which makes the inputs of a witness-only
\* transaction and must match the inputs of a full one
WitnessCount(read) ==
    /\ dpc = "witness"
    /\ dErr' = IF read.kind = "err" THEN "EOF"
               ELSE IF /\ dSerType = TxSerializeFull
                       /\ (read.kind = "tooMany" \/ read.n # Len(dTxIn))
               THEN "ErrMismatchedWitnessCount"
               ELSE IF read.kind = "tooMany" THEN "ErrTooManyTxs" ELSE ""
    /\ dTxIn' = IF dErr' = "" /\ dSerType = TxSerializeOnlyWitness
                THEN NilScripts(read.n) ELSE dTxIn
    /\ didx' = 0
    /\ dpc' = IF dErr' = "" THEN "witIn" ELSE "fail"
    /\ UNCHANGED <<scriptPool, dSerType, dTxOut>>
    /\ UNCHANGED <<ndecodes>>
    /\ UNCHANGED exceptPool

\* decodeWitness: readTxInWitness of input i
WitnessTxIn(read) ==
    /\ dpc = "witIn"
    /\ didx < Len(dTxIn)
    /\ scriptPool' = readPooledScript(scriptPool, read).pool
    /\ dTxIn' = [dTxIn EXCEPT
                    ![didx + 1] = readPooledScript(scriptPool, read).script]
    /\ dErr' = readPooledScript(scriptPool, read).err
    /\ didx' = IF dErr' = "" THEN didx + 1 ELSE didx
    /\ dpc' = IF dErr' = "" THEN "witIn" ELSE "fail"
    /\ UNCHANGED <<dSerType, dTxOut>>
    /\ UNCHANGED <<ndecodes>>
    /\ UNCHANGED exceptPool

\* BtcDecode after a decode error: returnScriptBuffers(); return err
ReturnScriptBuffers ==
    /\ dpc = "fail"
    /\ scriptPool' = returnScriptBuffers(scriptPool, dTxIn, dTxOut)
    /\ dpc' = "done"
    /\ UNCHANGED <<dSerType, dTxIn, dTxOut, didx, dErr>>
    /\ UNCHANGED <<ndecodes>>
    /\ UNCHANGED exceptPool

\* decodeWitness of a witness-only transaction, after the loop:
\* msg.TxOut = make([]*TxOut, 0)
WitnessTxOut(serType, txOut) ==
    IF serType = TxSerializeOnlyWitness THEN <<>> ELSE txOut

\* BtcDecode after all scripts are decoded: writeTxScriptsToMsgTx; return nil
WriteTxScripts ==
    /\ \/ dpc = "write"
       \/ dpc = "witIn" /\ didx = Len(dTxIn)
    /\ scriptPool' = writeTxScriptsToMsgTx(scriptPool, dTxIn,
                         WitnessTxOut(dSerType, dTxOut), dSerType, ndecodes).pool
    /\ dTxIn' = writeTxScriptsToMsgTx(scriptPool, dTxIn,
                    WitnessTxOut(dSerType, dTxOut), dSerType, ndecodes).txIn
    /\ dTxOut' = writeTxScriptsToMsgTx(scriptPool, dTxIn,
                     WitnessTxOut(dSerType, dTxOut), dSerType, ndecodes).txOut
    /\ dpc' = "done"
    /\ UNCHANGED <<dSerType, didx, dErr>>
    /\ UNCHANGED <<ndecodes>>
    /\ UNCHANGED exceptPool

NextPool ==
    \/ \E ok \in BOOLEAN : \E serType \in 0..3 : DecodeVersion(ok, serType)
    \/ \E read \in CountReads : PrefixTxInCount(read)
    \/ \E ok \in BOOLEAN : PrefixTxIn(ok)
    \/ \E read \in CountReads : PrefixTxOutCount(read)
    \/ \E read \in ScriptReads : PrefixTxOut(read)
    \/ \E ok \in BOOLEAN : PrefixTail(ok)
    \/ \E read \in CountReads : WitnessCount(read)
    \/ \E read \in ScriptReads : WitnessTxIn(read)
    \/ ReturnScriptBuffers
    \/ WriteTxScripts

SpecPool == InitPool /\ [][NextPool]_vars

\* C13: when BtcDecode has returned, with nil or with any decode error,
\* every buffer borrowed from the script pool during the call has been
\* handed back to the pool: no loan is outstanding.
C13_NoLoanOutstanding == dpc = "done" => scriptPool.loans = {}

\* a full transaction failed in its witness after the scripts of two
\* outputs and of one input had been borrowed, and nothing stayed out
C13_Witness ==
    /\ dpc = "done"
    /\ dErr # ""
    /\ dSerType = TxSerializeFull
    /\ scriptPool.next = 4
    /\ scriptPool.loans = {}

\* BtcDecode calls on one MsgTx value
MaxDecodes == 3

\* BtcDecode is called again on the MsgTx value the last call left
DecodeAgain ==
    /\ dpc = "done"
    /\ ndecodes < MaxDecodes
    /\ ndecodes' = ndecodes + 1
    /\ dpc' = "version"
    /\ dErr' = ""
    /\ didx' = 0
    /\ UNCHANGED <<scriptPool, dSerType, dTxIn, dTxOut>>
    /\ UNCHANGED exceptPool

\* what the reader does to a count and to a script in the repeated decodes
AgainCountReads == {CountRead("err", 0)} \cup {CountRead("ok", n) : n \in 1..MaxScripts}

AgainScriptReads ==
    {ScriptRead("ok", 25), ScriptRead("ok", freeListMaxScriptSize),
     ScriptRead("short", 25)}

InitAgain ==
    /\ scriptPool = FreeList(0, <<>>, {}, 1)
    /\ dpc = "version"
    /\ dSerType = 0
    /\ dTxIn = <<>>
    /\ dTxOut = <<>>
    /\ didx = 0
    /\ dErr = ""
    /\ ndecodes = 1
    /\ IdleBurn /\ IdleCodec /\ IdleFees /\ IdleEmission /\ IdleLock
    /\ IdleTrack
    /\ IdleCalc
    /\ IdleCall

NextAgain ==
    \/ \E serType \in {TxSerializeNoWitness, TxSerializeOnlyWitness,
                        TxSerializeFull} : DecodeVersion(TRUE, serType)
    \/ \E read \in AgainCountReads : PrefixTxInCount(read)
    \/ PrefixTxIn(TRUE)
    \/ \E read \in AgainCountReads : PrefixTxOutCount(read)
    \/ \E read \in AgainScriptReads : PrefixTxOut(read)
    \/ PrefixTail(TRUE)
    \/ \E read \in AgainCountReads : WitnessCount(read)
    \/ \E read \in AgainScriptReads : WitnessTxIn(read)
    \/ ReturnScriptBuffers
    \/ WriteTxScripts
    \/ DecodeAgain

SpecAgain == InitAgain /\ [][NextAgain]_vars

\* the scripts of the transaction, inputs then outputs
TxScripts == dTxIn \o dTxOut

\* script i of the transaction is set and is a slice of a contiguous
\* allocation
IsSlice(i) == TxScripts[i] # Nil /\ TxScripts[i][1].id < 0

\* the memory of script i is in the free list
InFreeList(i) ==
    \E k \in 1..Len(scriptPool.tail) : scriptPool.tail[k] = TxScripts[i][1].id

\* C26: no script of the transaction that is a slice of a contiguous
\* allocation is in the script pool, no two scripts of the transaction
\* share their memory, and when a decode has returned nil every script is a
\* slice of the allocation this decode made.
C26_NoScriptAliasing ==
    /\ \A i \in 1..Len(TxScripts) : IsSlice(i) => ~InFreeList(i)
    /\ \A i, j \in 1..Len(TxScripts) :
           (i # j /\ IsSlice(i) /\ TxScripts[j] # Nil)
               => TxScripts[i][1].id # TxScripts[j][1].id
    /\ (dpc = "done" /\ dErr = "") =>
           \A i \in 1..Len(TxScripts) :
               TxScripts[i] # Nil =>
                   /\ TxScripts[i][1].id < 0
                   /\ (0 - TxScripts[i][1].id) \div 16 = ndecodes

----------------------------------------------------------------------------
(* The functions that classify SKA emission transactions:
   src/internal/blockchain/skaemission.go:109-211 and
   src/wire/go.mod:1929-1963 *)

\* wire.IsSKAEmissionTransaction, the marker test: the signature script has
\* four bytes or more and begins with [0x01, 'S', 'K', 'A']
HasAuthorizedMarker(sigScript) ==
    /\ Len(sigScript) >= 4
    /\ sigScript[1] = 1 /\ sigScript[2] = 83 /\ sigScript[3] = 75
    /\ sigScript[4] = 65

\* wire.IsSKAEmissionTransaction
wireIsSKAEmissionTransaction(tx) ==
    /\ Len(tx.TxIn) = 1
    /\ Len(tx.TxOut) # 0
    /\ IsNullInput(tx.TxIn[1].PreviousOutPoint)
    /\ HasAuthorizedMarker(tx.TxIn[1].SignatureScript)
    /\ \A i \in 1..Len(tx.TxOut) : IsSKA(tx.TxOut[i].CoinType)

\* signature scripts of the null input
SigScripts ==
    { <<1, 83, 75, 65>>,            \* the marker alone
      <<1, 83, 75, 65, 2, 9>>,      \* the marker and more bytes
      <<2, 83, 75, 65>>,            \* another first byte before "SKA"
      <<0, 0, 83, 75, 65>>,         \* "SKA" at the end only
      <<83, 75, 65>>,               \* three bytes
      <<>> }

\* a null input with the given signature script
NullTxIn(script) ==
    TxIn(OutPoint(ZeroHash, MaxU32, 0), MaxU32, I64(0 - 1), Nil, U32(0), MaxU32,
         script)

\* the transactions classified: a null input with each script, and a
\* regular input
ClassifiedTxs ==
    { MsgTx(TxSerializeFull, 1, <<NullTxIn(script)>>, outs, U32(0), U32(0)) :
          script \in SigScripts,
          outs \in {<<EmissionOut(10)>>, <<EmissionOut(4), EmissionOut(6)>>,
                    <<VarOut(10, PlainScript)>>} }
        \cup { MsgTx(TxSerializeFull, 1, <<TxInVar>>, <<EmissionOut(10)>>, U32(0),
                     U32(0)) }

InitClassify ==
    /\ callArgs \in [tx : ClassifiedTxs, blockHeight : 1..MaxChkHeight,
                     chainParams : ChainParams]
    /\ callRet = <<>>
    /\ callPc = "start"
    /\ IdleBurn /\ IdleCodec /\ IdleFees /\ IdleEmission /\ IdleLock /\ IdlePool
    /\ IdleTrack
    /\ IdleCalc

\* the three functions are asked about the transaction
Classify ==
    /\ callPc = "start"
    /\ callRet' =
           [ValidateSKAEmissionTransaction |->
                ValidateSKAEmissionTransaction(callArgs.tx, callArgs.blockHeight,
                                               callArgs.chainParams),
            IsSKAEmissionTransaction |-> IsSKAEmissionTransaction(callArgs.tx),
            wireIsSKAEmissionTransaction |->
                wireIsSKAEmissionTransaction(callArgs.tx)]
    /\ callPc' = "returned"
    /\ UNCHANGED callArgs
    /\ UNCHANGED exceptCall

NextClassify == Classify

SpecClassify == InitClassify /\ [][NextClassify]_vars

\* the signature script of the transaction's single input begins with the
\* four marker bytes
BeginsWithMarker(tx) ==
    /\ Len(tx.TxIn) = 1
    /\ Len(tx.TxIn[1].SignatureScript) >= 4
    /\ SubSeq(tx.TxIn[1].SignatureScript, 1, 4) = <<1, 83, 75, 65>>

\* C14: a transaction whose signature script does not begin with the bytes
\* [0x01, 'S', 'K', 'A'] is rejected by ValidateSKAEmissionTransaction and
\* by both IsSKAEmissionTransaction functions.
C14_MarkerPrefixRequired ==
    (callPc = "returned" /\ ~BeginsWithMarker(callArgs.tx)) =>
        /\ callRet.ValidateSKAEmissionTransaction # <<>>
        /\ ~callRet.IsSKAEmissionTransaction
        /\ ~callRet.wireIsSKAEmissionTransaction

----------------------------------------------------------------------------
(* The coinbase test: src/unnamed/part_009:75-150 and
   src/unnamed/part_008:44-67 *)

TxVersionTreasury == 3

opTSpend == 194

opTGen == 195

SSFeeMinScriptLen == 8

\* IsSSFeeMarkerScript: OP_RETURN, OP_DATA_6 or OP_DATA_8, "SF" or "MF"
IsSSFeeMarkerScript(script) ==
    /\ Len(script) >= SSFeeMinScriptLen
    /\ script[1] = 106
    /\ script[2] \in {6, 8}
    /\ \/ script[3] = 83 /\ script[4] = 70
       \/ script[3] = 77 /\ script[4] = 70

\* IsCoinBaseTx, the closure isTreasurySpendLike
isTreasurySpendLike(tx) ==
    /\ Len(tx.TxOut) >= 2
    /\ Len(tx.TxIn[1].SignatureScript) # 0
    /\ Len(tx.TxOut[1].PkScript) # 0
    /\ Len(tx.TxOut[2].PkScript) # 0
    /\ tx.TxIn[1].SignatureScript[Len(tx.TxIn[1].SignatureScript)] = opTSpend
    /\ tx.TxOut[1].PkScript[1] = 106
    /\ tx.TxOut[2].PkScript[1] = opTGen

\* IsCoinBaseTx, the test that keeps SSFee transactions out
HasSSFeeShape(tx) ==
    /\ tx.Version >= 3
    /\ Len(tx.TxOut) >= 2
    /\ Len(tx.TxIn[1].SignatureScript) = 0
    /\ \E i \in 1..Len(tx.TxOut) : IsSSFeeMarkerScript(tx.TxOut[i].PkScript)

\* IsCoinBaseTx
IsCoinBaseTx(tx, isTreasuryEnabled) ==
    /\ ~(isTreasuryEnabled /\ tx.Version # TxVersionTreasury)
    /\ Len(tx.TxIn) = 1
    /\ IsNullInput(tx.TxIn[1].PreviousOutPoint)
    /\ ~(isTreasuryEnabled /\ isTreasurySpendLike(tx))
    /\ ~HasSSFeeShape(tx)
    /\ ~HasAuthorizedMarker(tx.TxIn[1].SignatureScript)

\* a miner SSFee marker script: OP_RETURN, OP_DATA_6, "MF", height
MinerFeeScript == <<106, 6, 77, 70, 1, 0, 0, 0>>

\* the outputs of the transactions asked about
CoinBaseOuts ==
    { EmissionOut(10), VarOut(10, PlainScript), VarOut(0, MinerFeeScript),
      VarOut(0, <<106, 1, 2>>), VarOut(10, <<opTGen>> \o PlainScript) }

\* signature scripts of the single input
CoinBaseSigScripts ==
    { <<>>, <<1, 83, 75, 65>>, <<2, 83, 75, 65>>, <<4, 0, 0, 0, 0>>,
      <<1, 2, opTSpend>> }

\* the transactions asked about: a null input with each script and one or
\* two outputs, a regular input, and two inputs
CoinBaseTxs ==
    { MsgTx(TxSerializeFull, v, <<NullTxIn(script)>>, outs, U32(0), U32(0)) :
          v \in {1, TxVersionTreasury}, script \in CoinBaseSigScripts,
          outs \in {<<o>> : o \in CoinBaseOuts}
                     \cup {<<o1, o2>> : o1 \in CoinBaseOuts, o2 \in CoinBaseOuts} }
        \cup { MsgTx(TxSerializeFull, TxVersionTreasury, ins,
                     <<VarOut(10, PlainScript)>>, U32(0), U32(0)) :
                  ins \in {<<TxInVar>>, <<NullTxIn(<<>>), TxInVar>>} }

InitCoinBase ==
    /\ callArgs \in [tx : CoinBaseTxs, isTreasuryEnabled : BOOLEAN]
    /\ callRet = <<>>
    /\ callPc = "start"
    /\ IdleBurn /\ IdleCodec /\ IdleFees /\ IdleEmission /\ IdleLock /\ IdlePool
    /\ IdleTrack
    /\ IdleCalc

\* the transaction is classified by IsCoinBaseTx and IsSKAEmissionTransaction
AskCoinBase ==
    /\ callPc = "start"
    /\ callRet' = [IsCoinBaseTx |->
                       IsCoinBaseTx(callArgs.tx, callArgs.isTreasuryEnabled),
                   IsSKAEmissionTransaction |->
                       IsSKAEmissionTransaction(callArgs.tx)]
    /\ callPc' = "returned"
    /\ UNCHANGED callArgs
    /\ UNCHANGED exceptCall

NextCoinBase == AskCoinBase

SpecCoinBase == InitCoinBase /\ [][NextCoinBase]_vars

\* C25: a transaction that IsCoinBaseTx classifies as a coinbase is not a
\* treasury spend when the treasury agenda is active, has no output with an
\* SSFee marker script, and is no SKA emission transaction.
C25_CoinBaseDisjoint ==
    (callPc = "returned" /\ callRet.IsCoinBaseTx) =>
        /\ callArgs.isTreasuryEnabled => ~isTreasurySpendLike(callArgs.tx)
        /\ \A i \in 1..Len(callArgs.tx.TxOut) :
               ~IsSSFeeMarkerScript(callArgs.tx.TxOut[i].PkScript)
        /\ ~callRet.IsSKAEmissionTransaction

----------------------------------------------------------------------------
(* The fee calculator: src/internal/fees/feecalc.go:19-392.  A float64
   multiplier is a fixed-point number of MultOne units; SKA amounts are
   counted in units of 10^15 atoms. *)

\* UpdateUtilization and RecordTransactionFee calls
MaxFeeCalls == 3

\* the float64 1.0
MultOne == 10000

\* int64(multiplier * 1000)
MultiplierFixed(m) == m \div (MultOne \div 1000)

\* cointype.KilobyteInt
KilobyteInt == 1000

\* big.NewInt(4000000000000000000), 4 SKA per KB
DefaultSKAMinRelayFee == 4000

\* chaincfg.SKACoinConfig, the fields the calculator reads
SKACoinConfig(active, minRelayTxFee, maxFeeMultiplier, maxSupply) ==
    [Active |-> active, MinRelayTxFee |-> minRelayTxFee,
     MaxFeeMultiplier |-> maxFeeMultiplier, MaxSupply |-> maxSupply]

\* CoinTypeFeeRate
CoinTypeFeeRate(minRelayFee, multiplier, maxFeeRate, skaMin, skaMax) ==
    [MinRelayFee |-> minRelayFee, DynamicFeeMultiplier |-> multiplier,
     MaxFeeRate |-> maxFeeRate, SKAMinRelayFee |-> skaMin,
     SKAMaxFeeRate |-> skaMax]

\* UtilizationStats; Stale tells that LastBlockIncluded lies more than ten
\* minutes back
UtilizationStats(pendingTxCount, blockSpaceUsed, recentTxFees) ==
    [PendingTxCount |-> pendingTxCount, BlockSpaceUsed |-> blockSpaceUsed,
     RecentTxFees |-> recentTxFees]

\* getDefaultSKAFeeRate, the minimum: the configured fee, or the default when
\* it is nil or not positive
SKAMinFee(config) ==
    IF config.MinRelayTxFee = Nil \/ config.MinRelayTxFee[1] <= 0
    THEN DefaultSKAMinRelayFee ELSE config.MinRelayTxFee[1]

\* getDefaultSKAFeeRate, the multiplier
SKAMultiplier(config) ==
    IF config.MaxFeeMultiplier <= 0 THEN 2500 ELSE config.MaxFeeMultiplier

\* getDefaultSKAFeeRate
getDefaultSKAFeeRate(config) ==
    CoinTypeFeeRate(0, MultOne, 0, Some(SKAMinFee(config)),
        Some(IF SKAMinFee(config) * SKAMultiplier(config) > config.MaxSupply
             THEN config.MaxSupply
             ELSE SKAMinFee(config) * SKAMultiplier(config)))

\* the coin types with a fee rate after initializeDefaultFeeRates
ActiveCoins(skaCoins) == {c \in DOMAIN skaCoins : skaCoins[c].Active}

\* initializeDefaultFeeRates: calc.feeRates
initialFeeRates(skaCoins, minRelayFee) ==
    [c \in {CoinTypeVAR} \cup ActiveCoins(skaCoins) |->
        IF c = CoinTypeVAR
        THEN CoinTypeFeeRate(minRelayFee, MultOne, minRelayFee * 100, Nil, Nil)
        ELSE getDefaultSKAFeeRate(skaCoins[c])]

\* initializeDefaultFeeRates: calc.utilizationStats
initialStats(skaCoins) ==
    [c \in {CoinTypeVAR} \cup ActiveCoins(skaCoins) |-> UtilizationStats(0, 0, <<>>)]

\* calculateConfirmationMultiplier, in thousandths
calculateConfirmationMultiplier(targetConfirmations, stats) ==
    ((IF targetConfirmations <= 1 THEN 2000
      ELSE IF targetConfirmations <= 3 THEN 1500
      ELSE IF targetConfirmations <= 6 THEN 1200 ELSE 1000)
     * (IF stats.BlockSpaceUsed > 800 THEN 1500
        ELSE IF stats.BlockSpaceUsed > 600 THEN 1200 ELSE 1000)) \div 1000

\* estimatedRate * multiplierFixed / 1000, skipped for the multiplier 1.0
ApplyFixed(rate, fixed) ==
    IF fixed = 1000 THEN rate ELSE (rate * fixed) \div 1000

\* EstimateFeeRate, the minimum the estimate starts from
MinFeeRateOf(coinType, feeRate) ==
    IF IsSKA(coinType) /\ feeRate.SKAMinRelayFee # Nil
    THEN feeRate.SKAMinRelayFee[1] ELSE feeRate.MinRelayFee

\* EstimateFeeRate, the maximum
MaxFeeRateOf(coinType, feeRate) ==
    IF IsSKA(coinType) /\ feeRate.SKAMinRelayFee # Nil
    THEN feeRate.SKAMaxFeeRate[1] ELSE feeRate.MaxFeeRate

\* an estimate that is not held between the bounds
EnforceBoundsNot(rate, minFeeRate, maxFeeRate) == rate

\* EstimateFeeRate, "Enforce bounds"
EnforceBounds(rate, minFeeRate, maxFeeRate) ==
    IF (IF maxFeeRate > 0 /\ rate > maxFeeRate THEN maxFeeRate ELSE rate)
           < minFeeRate
    THEN minFeeRate
    ELSE (IF maxFeeRate > 0 /\ rate > maxFeeRate THEN maxFeeRate ELSE rate)

\* EstimateFeeRate, the rate of a coin type that has a fee rate
EstimatedRate(coinType, targetConfirmations, feeRate, stats) ==
    EnforceBounds(
        ApplyFixed(
            IF feeRate.DynamicFeeMultiplier # MultOne
            THEN (MinFeeRateOf(coinType, feeRate)
                      * MultiplierFixed(feeRate.DynamicFeeMultiplier)) \div 1000
            ELSE MinFeeRateOf(coinType, feeRate),
            IF stats = Nil THEN 1000
            ELSE calculateConfirmationMultiplier(targetConfirmations, stats[1])),
        MinFeeRateOf(coinType, feeRate), MaxFeeRateOf(coinType, feeRate))

\* a lookup of the statistics that may be absent
StatsOf(allStats, coinType) ==
    IF coinType \in DOMAIN allStats THEN Some(allStats[coinType]) ELSE Nil

\* an estimate that takes the VAR fee rate for a coin type without one
EstimateFeeRateFromVAR(rates, allStats, coinType, targetConfirmations) ==
    [rate |-> Some(EstimatedRate(coinType, targetConfirmations,
                                 rates[CoinTypeVAR], StatsOf(allStats, coinType))),
     err |-> ""]

\* EstimateFeeRate: [rate, err]
EstimateFeeRate(rates, allStats, coinType, targetConfirmations) ==
    IF coinType \notin DOMAIN rates
    THEN [rate |-> Nil, err |-> "unsupported coin type"]
    ELSE [rate |-> Some(EstimatedRate(coinType, targetConfirmations,
                                      rates[coinType],
                                      StatsOf(allStats, coinType))),
          err |-> ""]

\* CalculateMinFee, the SKA path
SKAMinFeeOf(serializedSize, feeRate) ==
    IF ApplyFixed((serializedSize * feeRate.SKAMinRelayFee[1]) \div KilobyteInt,
                  MultiplierFixed(feeRate.DynamicFeeMultiplier)) = 0
           /\ feeRate.SKAMinRelayFee[1] > 0
    THEN feeRate.SKAMinRelayFee[1]
    ELSE ApplyFixed((serializedSize * feeRate.SKAMinRelayFee[1]) \div KilobyteInt,
                    MultiplierFixed(feeRate.DynamicFeeMultiplier))

\* CalculateMinFee, the VAR path before the limits: baseFee times the
\* multiplier, the minimum relay fee when that product is zero
VARDynamicFee(serializedSize, feeRate) ==
    IF ((serializedSize * feeRate.MinRelayFee) \div 1000 = 0
            \/ feeRate.DynamicFeeMultiplier = 0)
           /\ feeRate.MinRelayFee > 0
    THEN feeRate.MinRelayFee
    ELSE (((serializedSize * feeRate.MinRelayFee) \div 1000)
              * feeRate.DynamicFeeMultiplier) \div MultOne

\* CalculateMinFee, the VAR path: the maximum fee limit
VARLimitedFee(serializedSize, feeRate) ==
    IF (serializedSize * feeRate.MaxFeeRate) \div 1000 > 0
           /\ VARDynamicFee(serializedSize, feeRate)
                  > (serializedSize * feeRate.MaxFeeRate) \div 1000
    THEN (serializedSize * feeRate.MaxFeeRate) \div 1000
    ELSE VARDynamicFee(serializedSize, feeRate)

\* CalculateMinFee, the VAR path: the monetary range; the fee is an int64
VARMinFeeOf(serializedSize, feeRate) ==
    IF VARLimitedFee(serializedSize, feeRate) < 0 THEN MaxVARAtoms
    ELSE IF I64Less(MaxVARAtoms, I64(VARLimitedFee(serializedSize, feeRate)))
    THEN MaxVARAtoms
    ELSE I64(VARLimitedFee(serializedSize, feeRate))

\* CalculateMinFee, the fee rate used: the VAR rate for a coin type without
\* one
FeeRateOrVAR(rates, coinType) ==
    IF coinType \in DOMAIN rates THEN rates[coinType] ELSE rates[CoinTypeVAR]

\* CalculateMinFee
CalculateMinFee(rates, serializedSize, coinType) ==
    IF IsSKA(coinType) /\ FeeRateOrVAR(rates, coinType).SKAMinRelayFee # Nil
    THEN SKAMinFeeOf(serializedSize, FeeRateOrVAR(rates, coinType))
    ELSE VARMinFeeOf(serializedSize, FeeRateOrVAR(rates, coinType))

\* CalculateMaxFee, the SKA path: the maximum fee rate for sizes below 1 KB
SKAMaxFeeOf(serializedSize, feeRate) ==
    IF (feeRate.SKAMaxFeeRate[1] * serializedSize) \div 1000
           < feeRate.SKAMaxFeeRate[1]
    THEN feeRate.SKAMaxFeeRate[1]
    ELSE (feeRate.SKAMaxFeeRate[1] * serializedSize) \div 1000

\* CalculateMaxFee, the VAR path: nil when no maximum rate is set
VARMaxFeeOf(serializedSize, feeRate) ==
    IF feeRate.MaxFeeRate = 0 THEN Nil
    ELSE IF (serializedSize * feeRate.MaxFeeRate) \div 1000 < feeRate.MaxFeeRate
    THEN Some(I64(feeRate.MaxFeeRate))
    ELSE Some(I64((serializedSize * feeRate.MaxFeeRate) \div 1000))

\* CalculateMaxFee: nil, or the fee; an int64 image on the VAR path
CalculateMaxFee(rates, serializedSize, coinType) ==
    IF coinType \notin DOMAIN rates THEN Nil
    ELSE IF IsSKA(coinType) /\ rates[coinType].SKAMaxFeeRate # Nil
    THEN Some(SKAMaxFeeOf(serializedSize, rates[coinType]))
    ELSE VARMaxFeeOf(serializedSize, rates[coinType])

\* big.Int.Cmp(a, b) < 0 for two fees of the coin type: SKA fees are
\* numbers, the fees of the VAR path int64 images
FeeLess(rates, coinType, a, b) ==
    IF IsSKA(coinType) /\ FeeRateOrVAR(rates, coinType).SKAMinRelayFee # Nil
    THEN a < b ELSE I64Less(a, b)

\* ValidateTransactionFees: the error, "" for nil
ValidateTransactionFees(rates, txFee, serializedSize, coinType, allowHighFees) ==
    IF txFee = Nil THEN "nil fee"
    ELSE IF FeeLess(rates, coinType, txFee[1],
                    CalculateMinFee(rates, serializedSize, coinType))
    THEN "insufficient fee"
    ELSE IF /\ ~allowHighFees
            /\ CalculateMaxFee(rates, serializedSize, coinType) # Nil
            /\ FeeLess(rates, coinType,
                       CalculateMaxFee(rates, serializedSize, coinType)[1], txFee[1])
    THEN "fee too high"
    ELSE ""

\* updateDynamicFeeMultiplier, the new multiplier before smoothing
NewMultiplier(stats, stale) ==
    ((((IF stats.BlockSpaceUsed > 900 THEN 20000
        ELSE IF stats.BlockSpaceUsed > 700 THEN 15000
        ELSE IF stats.BlockSpaceUsed > 500 THEN 12000 ELSE MultOne)
       * (IF stats.PendingTxCount > 100 THEN 15000
          ELSE IF stats.PendingTxCount > 50 THEN 12000 ELSE MultOne))
          \div MultOne)
      * (IF stale THEN 13000 ELSE MultOne)) \div MultOne

\* updateDynamicFeeMultiplier, the bounds 0.5 and 10.0
ClampMultiplier(m) ==
    IF m > 10 * MultOne THEN 10 * MultOne
    ELSE IF m < MultOne \div 2 THEN MultOne \div 2 ELSE m

\* an update that adds the new multiplier to the old one, without bounds
updateDynamicFeeMultiplierSum(feeRate, stats, stale) ==
    [feeRate EXCEPT !.DynamicFeeMultiplier = @ + NewMultiplier(stats, stale)]

\* updateDynamicFeeMultiplier: the smoothed multiplier of the fee rate
updateDynamicFeeMultiplier(feeRate, stats, stale) ==
    [feeRate EXCEPT !.DynamicFeeMultiplier =
        ClampMultiplier((7 * feeRate.DynamicFeeMultiplier
                             + 3 * NewMultiplier(stats, stale)) \div 10)]

\* a call of the calculator: the method, its arguments, and the rate and
\* error it returned
CalcCall(fn, coinType, arg, rate, err) ==
    [fn |-> fn, coinType |-> coinType, arg |-> arg, rate |-> rate, err |-> err]

\* the calculator is built for these coins and this default relay fee
CalcSetup(skaCoins, minRelayFee) ==
    [SKACoins |-> skaCoins, defaultMinRelayFee |-> minRelayFee]

CalcSetups ==
    { CalcSetup((1 :> SKACoinConfig(TRUE, Some(4), 2, 1000000)), 10000),
      CalcSetup((1 :> SKACoinConfig(TRUE, Nil, 0, 1000000))
                    @@ (2 :> SKACoinConfig(FALSE, Some(7), 3, 1000000)), 10000),
      CalcSetup((1 :> SKACoinConfig(TRUE, Some(500), 200, 1000000)), 0) }

\* coin types of the calls: VAR, SKA-1, and SKA-2, which is inactive or not
\* configured
CalcCoins == {0, 1, 2}

\* what UpdateUtilization is called with: pending count, block space used
\* in thousandths, and whether the last inclusion is stale
UtilizationInputs ==
    { [pendingTxCount |-> 0, blockSpaceUsed |-> 0, stale |-> FALSE],
      [pendingTxCount |-> 60, blockSpaceUsed |-> 650, stale |-> FALSE],
      [pendingTxCount |-> 150, blockSpaceUsed |-> 950, stale |-> TRUE] }

\* what RecordTransactionFee is called with
RecordInputs ==
    { [fee |-> 5000, txSize |-> 250, confirmed |-> TRUE],
      [fee |-> 1, txSize |-> 0, confirmed |-> FALSE] }

\* the calls that answer with a fee
FeeCalls == {"EstimateFeeRate", "CalculateMinFee"}

InitCalc ==
    /\ \E setup \in CalcSetups :
           /\ feeRates = initialFeeRates(setup.SKACoins, setup.defaultMinRelayFee)
           /\ utilizationStats = initialStats(setup.SKACoins)
    /\ calcRet = CalcCall("none", 0, 0, Nil, "")
    /\ ncalc = 0
    /\ IdleBurn /\ IdleCodec /\ IdleFees /\ IdleEmission /\ IdleLock /\ IdlePool
    /\ IdleTrack
    /\ IdleCall

\* the statistics of a coin type, created when absent
StatsOrNew(allStats, coinType) ==
    IF coinType \in DOMAIN allStats THEN allStats[coinType]
    ELSE UtilizationStats(0, 0, <<>>)

\* UpdateUtilization
UpdateUtilization(coinType, in) ==
    /\ ncalc < MaxFeeCalls
    /\ ncalc' = ncalc + 1
    /\ utilizationStats' =
           MapPut(utilizationStats, coinType,
                  [StatsOrNew(utilizationStats, coinType) EXCEPT
                      !.PendingTxCount = in.pendingTxCount,
                      !.BlockSpaceUsed = in.blockSpaceUsed])
    /\ feeRates' =
           IF coinType \in DOMAIN feeRates
           THEN [feeRates EXCEPT ![coinType] =
                    updateDynamicFeeMultiplier(feeRates[coinType],
                        utilizationStats'[coinType], in.stale)]
           ELSE feeRates
    /\ calcRet' = CalcCall("UpdateUtilization", coinType, 0, Nil, "")
    /\ UNCHANGED exceptCalc

\* RecordTransactionFeeBig, the list of recent fee rates: the last 100
\* a list that drops the new sample when it is full
AppendRecentKeepOldest(fees, feeRate) ==
    IF Len(fees) + 1 > 100 THEN fees ELSE Append(fees, feeRate)

AppendRecent(fees, feeRate) ==
    IF Len(fees) + 1 > 100 THEN Tail(Append(fees, feeRate))
    ELSE Append(fees, feeRate)

\* RecordTransactionFeeBig: calc.utilizationStats after the call
RecordTransactionFeeBig(allStats, coinType, fee, txSize) ==
    IF txSize <= 0
    THEN MapPut(allStats, coinType, StatsOrNew(allStats, coinType))
    ELSE MapPut(allStats, coinType,
             [StatsOrNew(allStats, coinType) EXCEPT
                 !.RecentTxFees = AppendRecent(@, (fee * KilobyteInt) \div txSize)])

\* RecordTransactionFee
RecordTransactionFee(coinType, in) ==
    /\ ncalc < MaxFeeCalls
    /\ ncalc' = ncalc + 1
    /\ utilizationStats' =
           RecordTransactionFeeBig(utilizationStats, coinType, in.fee, in.txSize)
    /\ calcRet' = CalcCall("RecordTransactionFee", coinType, 0, Nil, "")
    /\ UNCHANGED feeRates
    /\ UNCHANGED exceptCalc

\* a caller asks EstimateFeeRate
CallEstimateFeeRate(coinType, targetConfirmations) ==
    /\ calcRet' =
           CalcCall("EstimateFeeRate", coinType, targetConfirmations,
               EstimateFeeRate(feeRates, utilizationStats, coinType,
                               targetConfirmations).rate,
               EstimateFeeRate(feeRates, utilizationStats, coinType,
                               targetConfirmations).err)
    /\ UNCHANGED <<feeRates, utilizationStats, ncalc>>
    /\ UNCHANGED exceptCalc

\* a caller asks CalculateMinFee
CallCalculateMinFee(serializedSize, coinType) ==
    /\ calcRet' =
           CalcCall("CalculateMinFee", coinType, serializedSize,
               Some(CalculateMinFee(feeRates, serializedSize, coinType)), "")
    /\ UNCHANGED <<feeRates, utilizationStats, ncalc>>
    /\ UNCHANGED exceptCalc

\* the fee a caller offers: the minimum or the maximum the calculator
\* tells, or nothing
OfferedFee(offer, serializedSize, coinType) ==
    IF offer = "min" THEN Some(CalculateMinFee(feeRates, serializedSize, coinType))
    ELSE IF offer = "max" THEN CalculateMaxFee(feeRates, serializedSize, coinType)
    ELSE Nil

Offers == {"min", "max", "nil"}

\* a caller asks ValidateTransactionFees with allowHighFees = false
CallValidateTransactionFees(offer, serializedSize, coinType) ==
    /\ calcRet' =
           CalcCall("ValidateTransactionFees", coinType, serializedSize,
               OfferedFee(offer, serializedSize, coinType),
               ValidateTransactionFees(feeRates,
                   OfferedFee(offer, serializedSize, coinType), serializedSize,
                   coinType, FALSE))
    /\ UNCHANGED <<feeRates, utilizationStats, ncalc>>
    /\ UNCHANGED exceptCalc

\* confirmation targets and transaction sizes asked for
Targets == {1, 6, 10}

TxSizes == {0, 250}

NextCalc ==
    \/ \E c \in CalcCoins : \E in \in UtilizationInputs : UpdateUtilization(c, in)
    \/ \E c \in CalcCoins : \E in \in RecordInputs : RecordTransactionFee(c, in)
    \/ \E c \in CalcCoins : \E k \in Targets : CallEstimateFeeRate(c, k)
    \/ \E c \in CalcCoins : \E n \in TxSizes : CallCalculateMinFee(n, c)

SpecCalc == InitCalc /\ [][NextCalc]_vars

C16_BothFallBackToVAR ==
    (calcRet.fn \in FeeCalls /\ calcRet.coinType \notin DOMAIN feeRates) =>
        /\ calcRet.err = ""
        /\ calcRet.fn = "CalculateMinFee" =>
               calcRet.rate
                   = Some(CalculateMinFee(feeRates, calcRet.arg, CoinTypeVAR))
        /\ calcRet.fn = "EstimateFeeRate" =>
               calcRet.rate
                   = EstimateFeeRateFromVAR(feeRates, utilizationStats,
                         calcRet.coinType, calcRet.arg).rate

\* C16 amended: for a coin type without a configured fee rate
\* CalculateMinFee returns the fee it computes for VAR, and EstimateFeeRate
\* returns no rate and the error "unsupported coin type".
C16_MinFeeFallsBackToVAR ==
    (calcRet.fn \in FeeCalls /\ calcRet.coinType \notin DOMAIN feeRates) =>
        /\ calcRet.fn = "CalculateMinFee" =>
               /\ calcRet.err = ""
               /\ calcRet.rate
                      = Some(CalculateMinFee(feeRates, calcRet.arg, CoinTypeVAR))
        /\ calcRet.fn = "EstimateFeeRate" =>
               /\ calcRet.err = "unsupported coin type"
               /\ calcRet.rate = Nil

\* CalculateMinFee was asked for the unconfigured coin type 2 after the VAR
\* multiplier had moved, and answered with the VAR fee
C16_Witness ==
    /\ calcRet.fn = "CalculateMinFee"
    /\ calcRet.coinType = 2
    /\ 2 \notin DOMAIN feeRates
    /\ calcRet.arg = 250
    /\ feeRates[CoinTypeVAR].DynamicFeeMultiplier # MultOne
    /\ calcRet.rate = Some(CalculateMinFee(feeRates, 250, CoinTypeVAR))
    /\ calcRet.rate # Some(I64(0))

\* C27: in every state the dynamic fee multiplier of every coin type with a
\* fee rate lies between 0.5 and 10.0, and it is 1.0 as long as
\* UpdateUtilization has not been called for the coin type.
C27_MultiplierBounded ==
    \A c \in DOMAIN feeRates :
        /\ feeRates[c].DynamicFeeMultiplier >= MultOne \div 2
        /\ feeRates[c].DynamicFeeMultiplier <= 10 * MultOne
        /\ ncalc = 0 => feeRates[c].DynamicFeeMultiplier = MultOne

\* UpdateUtilization ran three times for SKA-1 with a full block, a backlog
\* and no recent inclusion, and the multiplier has risen to 2.9053
C27_Witness ==
    /\ ncalc = MaxFeeCalls
    /\ calcRet.fn = "UpdateUtilization"
    /\ calcRet.coinType = 1
    /\ utilizationStats[1].PendingTxCount = 150
    /\ feeRates[1].DynamicFeeMultiplier > 2 * MultOne
    /\ feeRates[CoinTypeVAR].DynamicFeeMultiplier = MultOne

\* RecordTransactionFee calls on one calculator
MaxRecords == 103

\* the calculator of the first setup; the coin type of calcRet is the one
\* whose fees are recorded
InitRecent ==
    /\ feeRates = initialFeeRates((1 :> SKACoinConfig(TRUE, Some(4), 2, 1000000)),
                                  10000)
    /\ utilizationStats = initialStats((1 :> SKACoinConfig(TRUE, Some(4), 2, 1000000)))
    /\ \E c \in CalcCoins : calcRet = CalcCall("none", c, 0, Nil, "")
    /\ ncalc = 0
    /\ IdleBurn /\ IdleCodec /\ IdleFees /\ IdleEmission /\ IdleLock /\ IdlePool
    /\ IdleTrack
    /\ IdleCall

\* the recent fee rates of a coin type
RecentOf(allStats, c) ==
    IF c \in DOMAIN allStats THEN allStats[c].RecentTxFees ELSE <<>>

\* the fee of the next recorded transaction: one more than the newest sample,
\* so that every sample of a list tells when it arrived
NextFee(fees) == IF fees = <<>> THEN 1 ELSE fees[Len(fees)] + 1

\* RecordTransactionFee for a transaction of txSize bytes paying fee; the fee
\* rate of a transaction of 1000 bytes is its fee
RecordNext(fee, txSize) ==
    /\ ncalc < MaxRecords
    /\ ncalc' = ncalc + 1
    /\ utilizationStats' =
           RecordTransactionFeeBig(utilizationStats, calcRet.coinType, fee, txSize)
    /\ calcRet' = CalcCall("RecordTransactionFee", calcRet.coinType, txSize,
                           Some(fee), "")
    /\ UNCHANGED feeRates
    /\ UNCHANGED exceptCalc

NextRecent ==
    \E txSize \in {0, 1000} :
        RecordNext(NextFee(RecentOf(utilizationStats, calcRet.coinType)), txSize)

SpecRecent == InitRecent /\ [][NextRecent]_vars

\* C29: every RecordTransactionFee call with a valid size leaves the list of
\* the coin type as the old list with the new sample at its end, without its
\* oldest sample if 100 were held; a call with an invalid size leaves the
\* list as it was; and no list ever holds more than 100 samples.
C29_BoundedFIFO ==
    [][ /\ \A c \in CalcCoins : Len(RecentOf(utilizationStats', c)) <= 100
        /\ RecentOf(utilizationStats', calcRet'.coinType) =
               IF calcRet'.arg <= 0
               THEN RecentOf(utilizationStats, calcRet'.coinType)
               ELSE IF Len(RecentOf(utilizationStats, calcRet'.coinType)) = 100
               THEN Append(Tail(RecentOf(utilizationStats, calcRet'.coinType)),
                           calcRet'.rate[1])
               ELSE Append(RecentOf(utilizationStats, calcRet'.coinType),
                           calcRet'.rate[1]) ]_vars

\* 100 samples are held after the last call, which recorded a sample while
\* 100 were held: the oldest samples are gone and the others are in order
C29_Witness ==
    /\ ncalc = MaxRecords
    /\ calcRet.coinType = 1
    /\ calcRet.arg > 0
    /\ Len(utilizationStats[1].RecentTxFees) = 100
    /\ utilizationStats[1].RecentTxFees[1] > 1
    /\ \A i \in 1..100 :
           utilizationStats[1].RecentTxFees[i] =
               utilizationStats[1].RecentTxFees[1] + i - 1

\* the sizes of the transactions whose fee is validated
ValidatedSizes == {0, 250, 2000}

\* the calculator under load, asked to validate fees
NextValidate ==
    \/ \E c \in CalcCoins : \E in \in UtilizationInputs : UpdateUtilization(c, in)
    \/ \E c \in CalcCoins : \E n \in ValidatedSizes : \E offer \in Offers :
           CallValidateTransactionFees(offer, n, c)

SpecValidate == InitCalc /\ [][NextValidate]_vars

\* C28: for a coin type with a fee rate and a size above zero,
\* ValidateTransactionFees with allowHighFees = false accepts the fee that
\* CalculateMinFee returns: the minimum fee is not above the maximum fee.
C28_MinFeeAccepted ==
    (/\ calcRet.fn = "ValidateTransactionFees"
     /\ calcRet.coinType \in DOMAIN feeRates
     /\ calcRet.arg > 0
     /\ calcRet.rate = Some(CalculateMinFee(feeRates, calcRet.arg,
                                            calcRet.coinType)))
        => calcRet.err = ""

----------------------------------------------------------------------------
(* The UTXO entry codec: src/internal/blockchain/utxoio.go:156-400.  The VLQ
   and the compression of amounts and scripts are the repository's
   compress.go; a uint64 is a number below 2^31 here. *)

\* serialized[offset:], offset counted from 0
SliceFrom(serialized, offset) ==
    IF offset >= Len(serialized) THEN <<>>
    ELSE SubSeq(serialized, offset + 1, Len(serialized))

\* serialized[from:to]
Slice(serialized, from, to) ==
    IF to <= from THEN <<>> ELSE SubSeq(serialized, from + 1, to)

\* putVLQ before the reversal: the least significant group first, every
\* byte but the first with the high bit
RECURSIVE VLQGroups(_, _)
VLQGroups(n, first) ==
    <<(n % 128) + (IF first THEN 0 ELSE 128)>>
        \o (IF n <= 127 THEN <<>> ELSE VLQGroups((n \div 128) - 1, FALSE))

\* the bytes of a sequence in reverse order
Reversed(bytes) == [i \in 1..Len(bytes) |-> bytes[Len(bytes) + 1 - i]]

\* putVLQ: the most significant group first
putVLQ(n) == Reversed(VLQGroups(n, TRUE))

\* deserializeVLQ from position i with the value n read so far: [n, size]
RECURSIVE VLQFrom(_, _, _)
VLQFrom(serialized, i, n) ==
    IF i > Len(serialized) THEN [n |-> n, size |-> i - 1]
    ELSE IF serialized[i] < 128
    THEN [n |-> n * 128 + serialized[i], size |-> i]
    ELSE VLQFrom(serialized, i + 1, n * 128 + (serialized[i] % 128) + 1)

\* deserializeVLQ: the value and the number of bytes read, 0 for no bytes
deserializeVLQ(serialized) == VLQFrom(serialized, 1, 0)

\* compressTxOutAmount, the division by ten while the amount ends in zero:
\* [amount, exponent]
RECURSIVE StripTens(_, _)
StripTens(amount, exponent) ==
    IF amount % 10 = 0 /\ exponent < 9
    THEN StripTens(amount \div 10, exponent + 1)
    ELSE [amount |-> amount, exponent |-> exponent]

\* compressTxOutAmount
compressTxOutAmount(amount) ==
    IF amount = 0 THEN 0
    ELSE IF StripTens(amount, 0).exponent < 9
    THEN 1 + 10 * (9 * (StripTens(amount, 0).amount \div 10)
                       + (StripTens(amount, 0).amount % 10) - 1)
           + StripTens(amount, 0).exponent
    ELSE 10 + 10 * (StripTens(amount, 0).amount - 1)

\* ten to the power of an exponent
RECURSIVE Pow10(_)
Pow10(exponent) == IF exponent = 0 THEN 1 ELSE 10 * Pow10(exponent - 1)

\* decompressTxOutAmount
decompressTxOutAmount(amount) ==
    IF amount = 0 THEN 0
    ELSE IF (amount - 1) % 10 < 9
    THEN (((((amount - 1) \div 10) \div 9) * 10) + (((amount - 1) \div 10) % 9) + 1)
             * Pow10((amount - 1) % 10)
    ELSE (((amount - 1) \div 10) + 1) * Pow10(9)

\* the special script types of the compression
cstPayToPubKeyHash == 0

cstPayToScriptHash == 1

cstPayToPubKeyCompEven == 2

cstPayToPubKeyUncompOdd == 5

numSpecialScripts == 64

\* the opcodes of the standard scripts
OP_DUP == 118

OP_HASH160 == 169

OP_DATA_20 == 20

OP_DATA_33 == 33

OP_EQUAL == 135

OP_EQUALVERIFY == 136

OP_CHECKSIG == 172

OP_RETURN == 106

\* a pay-to-pubkey-hash script
PayToPubKeyHashScript(hash) ==
    <<OP_DUP, OP_HASH160, OP_DATA_20>> \o hash \o <<OP_EQUALVERIFY, OP_CHECKSIG>>

\* a pay-to-script-hash script
PayToScriptHashScript(hash) == <<OP_HASH160, OP_DATA_20>> \o hash \o <<OP_EQUAL>>

\* isPubKeyHash
isPubKeyHash(script) ==
    Len(script) = 25 /\ script = PayToPubKeyHashScript(SubSeq(script, 4, 23))

\* isScriptHash
isScriptHash(script) ==
    Len(script) = 23 /\ script = PayToScriptHashScript(SubSeq(script, 3, 22))

\* putCompressedScript, for scripts that pay to no public key
putCompressedScript(scriptVersion, script) ==
    IF scriptVersion = 0 /\ isPubKeyHash(script)
    THEN <<cstPayToPubKeyHash>> \o SubSeq(script, 4, 23)
    ELSE IF scriptVersion = 0 /\ isScriptHash(script)
    THEN <<cstPayToScriptHash>> \o SubSeq(script, 3, 22)
    ELSE putVLQ(Len(script) + numSpecialScripts) \o script

\* decodeCompressedScriptSize: negative for no bytes and for a size below
\* the special types
decodeCompressedScriptSize(serialized) ==
    IF deserializeVLQ(serialized).size = 0 THEN 0 - 1
    ELSE IF deserializeVLQ(serialized).n \in {cstPayToPubKeyHash, cstPayToScriptHash}
    THEN 21
    ELSE IF deserializeVLQ(serialized).n
                \in cstPayToPubKeyCompEven..cstPayToPubKeyUncompOdd
    THEN 33
    ELSE deserializeVLQ(serialized).n - numSpecialScripts
             + deserializeVLQ(serialized).size

\* decompressScript, for compressed scripts that pay to no uncompressed
\* public key
decompressScript(compressedPkScript) ==
    IF Len(compressedPkScript) = 0 THEN <<>>
    ELSE IF deserializeVLQ(compressedPkScript).n = cstPayToPubKeyHash
    THEN PayToPubKeyHashScript(Slice(compressedPkScript, 1, 21))
    ELSE IF deserializeVLQ(compressedPkScript).n = cstPayToScriptHash
    THEN PayToScriptHashScript(Slice(compressedPkScript, 1, 21))
    ELSE IF deserializeVLQ(compressedPkScript).n
                \in cstPayToPubKeyCompEven..(cstPayToPubKeyCompEven + 1)
    THEN <<OP_DATA_33, deserializeVLQ(compressedPkScript).n>>
             \o Slice(compressedPkScript, 1, 33) \o <<OP_CHECKSIG>>
    ELSE Slice(compressedPkScript, deserializeVLQ(compressedPkScript).size,
               deserializeVLQ(compressedPkScript).size
                   + deserializeVLQ(compressedPkScript).n - numSpecialScripts)

\* putCompressedTxOut with hasAmount
putCompressedTxOut(amount, scriptVersion, script) ==
    putVLQ(compressTxOutAmount(amount)) \o putVLQ(scriptVersion)
        \o putCompressedScript(scriptVersion, script)

\* what decodeCompressedTxOut returns
CompressedTxOut(err, amount, scriptVersion, script, bytesRead) ==
    [err |-> err, amount |-> amount, scriptVersion |-> scriptVersion,
     script |-> script, bytesRead |-> bytesRead]

\* decodeCompressedTxOut, from the script version at offset on
decodeCompressedTxOutScript(serialized, amount, offset) ==
    IF deserializeVLQ(SliceFrom(serialized, offset)).size = 0
    THEN CompressedTxOut("unexpected end of data during decoding (script version)",
                         0, 0, <<>>, offset)
    ELSE IF decodeCompressedScriptSize(SliceFrom(serialized,
                offset + deserializeVLQ(SliceFrom(serialized, offset)).size)) < 0
    THEN CompressedTxOut("negative script size", 0, 0, <<>>, offset)
    ELSE IF Len(serialized)
                - (offset + deserializeVLQ(SliceFrom(serialized, offset)).size)
            < decodeCompressedScriptSize(SliceFrom(serialized,
                  offset + deserializeVLQ(SliceFrom(serialized, offset)).size))
    THEN CompressedTxOut("unexpected end of data after script size", 0, 0, <<>>,
                         offset)
    ELSE CompressedTxOut("", amount,
             deserializeVLQ(SliceFrom(serialized, offset)).n % 65536,
             decompressScript(Slice(serialized,
                 offset + deserializeVLQ(SliceFrom(serialized, offset)).size,
                 offset + deserializeVLQ(SliceFrom(serialized, offset)).size
                     + decodeCompressedScriptSize(SliceFrom(serialized,
                           offset + deserializeVLQ(SliceFrom(serialized, offset)).size)))),
             offset + deserializeVLQ(SliceFrom(serialized, offset)).size
                 + decodeCompressedScriptSize(SliceFrom(serialized,
                       offset + deserializeVLQ(SliceFrom(serialized, offset)).size)))

\* decodeCompressedTxOut with hasAmount
decodeCompressedTxOut(serialized) ==
    IF deserializeVLQ(serialized).size = 0
    THEN CompressedTxOut("unexpected end of data during decoding (compressed amount)",
                         0, 0, <<>>, 0)
    ELSE decodeCompressedTxOutScript(serialized,
             decompressTxOutAmount(deserializeVLQ(serialized).n),
             deserializeVLQ(serialized).size)

\* encodeFlags
encodeFlags(isCoinBase, hasExpiry, txType) ==
    (IF isCoinBase THEN 1 ELSE 0) + (IF hasExpiry THEN 2 ELSE 0) + 4 * txType

\* UtxoEntry; packedFlags is held as the three things it packs
UtxoEntry(blockHeight, blockIndex, flags, coinType, amount, skaAmount, scriptVersion, pkScript) ==
    [blockHeight |-> blockHeight, blockIndex |-> blockIndex,
     isCoinBase |-> flags % 2 = 1, hasExpiry |-> (flags \div 2) % 2 = 1,
     txType |-> (flags \div 4) % 16,
     coinType |-> coinType, amount |-> amount, skaAmount |-> skaAmount,
     scriptVersion |-> scriptVersion, pkScript |-> pkScript]

\* the legacy layout of an entry: block height, block index, flags and the
\* compressed txout, no coin type
serializeUtxoEntryV3(entry) ==
    putVLQ(entry.blockHeight) \o putVLQ(entry.blockIndex)
        \o putVLQ(encodeFlags(entry.isCoinBase, entry.hasExpiry, entry.txType))
        \o putCompressedTxOut(entry.amount, entry.scriptVersion, entry.pkScript)

\* serializeUtxoEntry, for entries that are no ticket submission outputs
serializeUtxoEntry(entry) ==
    putVLQ(entry.blockHeight) \o putVLQ(entry.blockIndex)
        \o putVLQ(encodeFlags(entry.isCoinBase, entry.hasExpiry, entry.txType))
        \o putVLQ(entry.coinType)
        \o (IF IsSKA(entry.coinType)
            THEN <<Len(entry.skaAmount[1]) % 256>> \o entry.skaAmount[1]
                     \o putVLQ(entry.scriptVersion)
                     \o putCompressedScript(entry.scriptVersion, entry.pkScript)
            ELSE putCompressedTxOut(entry.amount, entry.scriptVersion,
                                    entry.pkScript))

\* big.Int.SetBytes(...).Bytes(): the big-endian bytes without leading zeros
RECURSIVE BigIntBytes(_)
BigIntBytes(bytes) ==
    IF bytes # <<>> /\ bytes[1] = 0 THEN BigIntBytes(Tail(bytes)) ELSE bytes

\* deserializeUtxoEntry, the detection of the SKA layout: the amount length
\* at nextOffset, the script version at skaOffset and the compressed script
\* after it fit into the entry
ProbeSKAScript(serialized, skaOffset) ==
    /\ skaOffset < Len(serialized)
    /\ deserializeVLQ(SliceFrom(serialized, skaOffset)).size > 0
    /\ skaOffset + deserializeVLQ(SliceFrom(serialized, skaOffset)).size
           <= Len(serialized)
    /\ decodeCompressedScriptSize(SliceFrom(serialized,
           skaOffset + deserializeVLQ(SliceFrom(serialized, skaOffset)).size)) >= 0
    /\ skaOffset + deserializeVLQ(SliceFrom(serialized, skaOffset)).size
           + decodeCompressedScriptSize(SliceFrom(serialized,
                 skaOffset + deserializeVLQ(SliceFrom(serialized, skaOffset)).size))
         <= Len(serialized)

ProbeSKA(serialized, nextOffset) ==
    /\ nextOffset < Len(serialized)
    /\ serialized[nextOffset + 1] <= 32
    /\ ProbeSKAScript(serialized, nextOffset + 1 + serialized[nextOffset + 1])

\* deserializeUtxoEntry, "Determine if this is V4 format": the candidate
\* coin type read at offset
isV4Format(serialized, offset) ==
    /\ offset + deserializeVLQ(SliceFrom(serialized, offset)).size < Len(serialized)
    /\ IF IsSKA(deserializeVLQ(SliceFrom(serialized, offset)).n)
       THEN ProbeSKA(serialized,
                offset + deserializeVLQ(SliceFrom(serialized, offset)).size)
       ELSE /\ deserializeVLQ(SliceFrom(serialized, offset)).n = 0
            /\ decodeCompressedTxOut(SliceFrom(serialized,
                   offset + deserializeVLQ(SliceFrom(serialized, offset)).size)).err = ""

\* what deserializeUtxoEntry returns
Deserialized(err, entry) == [err |-> err, entry |-> entry]

\* deserializeUtxoEntry, the SKA layout from the script version on
deserializeSKAScript(serialized, blockHeight, blockIndex, flags, coinType, skaAmount, offset) ==
    IF deserializeVLQ(SliceFrom(serialized, offset)).size = 0
    THEN Deserialized("unexpected end of data during script version", <<>>)
    ELSE IF decodeCompressedScriptSize(SliceFrom(serialized,
                offset + deserializeVLQ(SliceFrom(serialized, offset)).size)) < 0
    THEN Deserialized("negative script size", <<>>)
    ELSE IF offset + deserializeVLQ(SliceFrom(serialized, offset)).size
                + decodeCompressedScriptSize(SliceFrom(serialized,
                      offset + deserializeVLQ(SliceFrom(serialized, offset)).size))
              > Len(serialized)
    THEN Deserialized("unexpected end of data after script size", <<>>)
    ELSE Deserialized("",
             UtxoEntry(blockHeight, blockIndex, flags, coinType, 0,
                 Some(skaAmount),
                 deserializeVLQ(SliceFrom(serialized, offset)).n % 65536,
                 decompressScript(Slice(serialized,
                     offset + deserializeVLQ(SliceFrom(serialized, offset)).size,
                     offset + deserializeVLQ(SliceFrom(serialized, offset)).size
                         + decodeCompressedScriptSize(SliceFrom(serialized,
                               offset + deserializeVLQ(SliceFrom(serialized,
                                                           offset)).size))))))

\* deserializeUtxoEntry, the SKA layout: the amount length at offset
deserializeSKA(serialized, blockHeight, blockIndex, flags, coinType, offset) ==
    IF offset >= Len(serialized)
    THEN Deserialized("unexpected end of data before SKA amount length", <<>>)
    ELSE IF offset + 1 + serialized[offset + 1] > Len(serialized)
    THEN Deserialized("unexpected end of data during SKA amount", <<>>)
    ELSE deserializeSKAScript(serialized, blockHeight, blockIndex, flags, coinType,
             BigIntBytes(Slice(serialized, offset + 1,
                               offset + 1 + serialized[offset + 1])),
             offset + 1 + serialized[offset + 1])

\* deserializeUtxoEntry, the VAR layout: the compressed txout at offset
deserializeVAR(serialized, blockHeight, blockIndex, flags, offset) ==
    IF decodeCompressedTxOut(SliceFrom(serialized, offset)).err # ""
    THEN Deserialized("unable to decode utxo", <<>>)
    ELSE Deserialized("",
             UtxoEntry(blockHeight, blockIndex, flags, CoinTypeVAR,
                 decodeCompressedTxOut(SliceFrom(serialized, offset)).amount, Nil,
                 decodeCompressedTxOut(SliceFrom(serialized, offset)).scriptVersion,
                 decodeCompressedTxOut(SliceFrom(serialized, offset)).script))

\* deserializeUtxoEntry, after the flags: the detection and the layout it
\* selects
deserializeTxOut(serialized, blockHeight, blockIndex, flags, offset) ==
    IF isV4Format(serialized, offset)
           /\ IsSKA(deserializeVLQ(SliceFrom(serialized, offset)).n)
    THEN deserializeSKA(serialized, blockHeight, blockIndex, flags,
             deserializeVLQ(SliceFrom(serialized, offset)).n,
             offset + deserializeVLQ(SliceFrom(serialized, offset)).size)
    ELSE deserializeVAR(serialized, blockHeight, blockIndex, flags,
             IF isV4Format(serialized, offset)
             THEN offset + deserializeVLQ(SliceFrom(serialized, offset)).size
             ELSE offset)

\* deserializeUtxoEntry, the flags at offset
deserializeFlags(serialized, blockHeight, blockIndex, offset) ==
    IF offset + deserializeVLQ(SliceFrom(serialized, offset)).size
           >= Len(serialized)
    THEN Deserialized("unexpected end of data after flags", <<>>)
    ELSE deserializeTxOut(serialized, blockHeight, blockIndex,
             deserializeVLQ(SliceFrom(serialized, offset)).n,
             offset + deserializeVLQ(SliceFrom(serialized, offset)).size)

\* deserializeUtxoEntry, the block index at offset
deserializeIndex(serialized, blockHeight, offset) ==
    IF offset + deserializeVLQ(SliceFrom(serialized, offset)).size
           >= Len(serialized)
    THEN Deserialized("unexpected end of data after index", <<>>)
    ELSE deserializeFlags(serialized, blockHeight,
             deserializeVLQ(SliceFrom(serialized, offset)).n,
             offset + deserializeVLQ(SliceFrom(serialized, offset)).size)

\* deserializeUtxoEntry, for entries that are no ticket submission outputs
deserializeUtxoEntry(serialized) ==
    IF deserializeVLQ(serialized).size >= Len(serialized)
    THEN Deserialized("unexpected end of data after height", <<>>)
    ELSE deserializeIndex(serialized, deserializeVLQ(serialized).n,
                          deserializeVLQ(serialized).size)

\* twenty bytes of a hash that begins with the given byte
HashFrom(first) == <<first>> \o [i \in 1..19 |-> 7]

\* the scripts of the stored outputs: pay-to-pubkey-hash and
\* pay-to-script-hash with several hashes, a data carrier of 44 bytes, a
\* short script
UtxoScripts ==
    { PayToPubKeyHashScript(HashFrom(0)), PayToPubKeyHashScript(HashFrom(64)),
      PayToPubKeyHashScript(HashFrom(200)), PayToScriptHashScript(HashFrom(9)),
      <<OP_RETURN>> \o [i \in 1..43 |-> 1], <<81>> }

\* the entries a version 3 database holds: all of them VAR
V3Entries ==
    { UtxoEntry(h, i, f, CoinTypeVAR, a, Nil, v, script) :
          h \in {1, 200}, i \in {0, 3}, f \in {0, 1},
          a \in {0, 1, 123, 100000000, 2000000000}, v \in {0, 1},
          script \in UtxoScripts }

InitUtxo ==
    /\ callArgs \in [entry : V3Entries]
    /\ callRet = <<>>
    /\ callPc = "start"
    /\ IdleBurn /\ IdleCodec /\ IdleFees /\ IdleEmission /\ IdleLock /\ IdlePool
    /\ IdleTrack
    /\ IdleCalc

\* the stored bytes of the entry are read back
DeserializeStored ==
    /\ callPc = "start"
    /\ callRet' = deserializeUtxoEntry(serializeUtxoEntryV3(callArgs.entry))
    /\ callPc' = "returned"
    /\ UNCHANGED callArgs
    /\ UNCHANGED exceptCall

NextUtxo == DeserializeStored

SpecUtxo == InitUtxo /\ [][NextUtxo]_vars

\* C17: an entry stored in the legacy layout decodes without error to an
\* entry of coin type VAR with the height, index, flags, amount, script
\* version and script that were stored.
C17_V3DecodesAsVAR ==
    callPc = "returned" => callRet = Deserialized("", callArgs.entry)

\* the big-endian bytes of 2^(8 * (n - 1)): a one and n - 1 zero bytes
PowerOf256(n) == <<1>> \o [i \in 1..(n - 1) |-> 0]

\* the amounts of the SKA entries, as big.Int.Bytes() returns them: 0, 1,
\* 256, 2^248 and 2^256
SKAAmounts == { <<>>, <<1>>, PowerOf256(2), PowerOf256(32), PowerOf256(33) }

\* the unspent entries the current layout is written for: VAR entries with
\* an int64 amount and SKA entries with a big integer amount
V4Entries ==
    { UtxoEntry(h, i, f, CoinTypeVAR, a, Nil, v, script) :
          h \in {1, 200}, i \in {0, 3}, f \in {0, 1},
          a \in {0, 1, 123, 100000000}, v \in {0, 1}, script \in UtxoScripts }
    \cup { UtxoEntry(h, 0, f, c, 0, Some(a), 0, script) :
          h \in {1, 200}, f \in {0, 1}, c \in {1, 255}, a \in SKAAmounts,
          script \in UtxoScripts }

InitRoundTrip ==
    /\ callArgs \in [entry : V4Entries]
    /\ callRet = <<>>
    /\ callPc = "start"
    /\ IdleBurn /\ IdleCodec /\ IdleFees /\ IdleEmission /\ IdleLock /\ IdlePool
    /\ IdleTrack
    /\ IdleCalc

\* the entry is serialized and the bytes are read back
SerializeThenDeserialize ==
    /\ callPc = "start"
    /\ callRet' = deserializeUtxoEntry(serializeUtxoEntry(callArgs.entry))
    /\ callPc' = "returned"
    /\ UNCHANGED callArgs
    /\ UNCHANGED exceptCall

NextRoundTrip == SerializeThenDeserialize

SpecRoundTrip == InitRoundTrip /\ [][NextRoundTrip]_vars

\* C24: deserializing the serialization of an unspent entry, VAR or SKA,
\* returns no error and the same entry: coin type, amount, height, index,
\* flags, script version and script.
C24_RoundTrip ==
    callPc = "returned" => callRet = Deserialized("", callArgs.entry)

----------------------------------------------------------------------------
(* The primary coin type of a transaction:
   src/internal/blockalloc/transaction.go:16-42 and src/wire/go.mod:143-150. *)

\* GetTransactionCoinType, the test of the loop: the output has a value
HasValue(txOut) ==
    IF IsSKA(txOut.CoinType)
    THEN txOut.SKAValue # Nil /\ txOut.SKAValue[1] > 0
    ELSE I64Less(I64(0), txOut.Value)

\* GetTransactionCoinType, the loop from output i on: the coin type of the
\* first output with a value, the coin type of the first output without one
RECURSIVE FirstWithValue(_, _)
FirstWithValue(outs, i) ==
    IF i > Len(outs) THEN outs[1].CoinType
    ELSE IF HasValue(outs[i]) THEN outs[i].CoinType
    ELSE FirstWithValue(outs, i + 1)

\* a primary coin type that skips the loop
GetTransactionCoinTypeOfFirst(tx) ==
    IF Len(tx.TxOut) = 0 THEN CoinTypeVAR ELSE tx.TxOut[1].CoinType

\* blockalloc.GetTransactionCoinType
GetTransactionCoinType(tx) ==
    IF Len(tx.TxOut) = 0 THEN CoinTypeVAR ELSE FirstWithValue(tx.TxOut, 1)

\* wire.GetPrimaryCoinType, the loop from output i on
RECURSIVE FirstNotVAR(_, _)
FirstNotVAR(outs, i) ==
    IF i > Len(outs) THEN CoinTypeVAR
    ELSE IF outs[i].CoinType # CoinTypeVAR THEN outs[i].CoinType
    ELSE FirstNotVAR(outs, i + 1)

\* wire.GetPrimaryCoinType
GetPrimaryCoinType(tx) == FirstNotVAR(tx.TxOut, 1)

\* the outputs of the transactions asked about
PrimaryTxOuts ==
    { VarOut(100, PlainScript), VarOut(0, <<106>>), SkaOut(1, 0, <<106>>),
      SkaOut(1, 258, PlainScript), SkaOut(2, 5, PlainScript),
      TxOut(3, I64(0), Nil, 0, PlainScript) }

\* up to MaxPrimaryOuts outputs
MaxPrimaryOuts == 3

PrimaryTxs ==
    { [TxOut |-> outs] :
          outs \in UNION { [1..n -> PrimaryTxOuts] : n \in 0..MaxPrimaryOuts } }

InitPrimary ==
    /\ callArgs \in [tx : PrimaryTxs]
    /\ callRet = <<>>
    /\ callPc = "start"
    /\ IdleBurn /\ IdleCodec /\ IdleFees /\ IdleEmission /\ IdleLock /\ IdlePool
    /\ IdleTrack
    /\ IdleCalc

\* block-space admission and fee calculation ask for the coin type
AskPrimary ==
    /\ callPc = "start"
    /\ callRet' =
           [GetTransactionCoinType |-> GetTransactionCoinType(callArgs.tx),
            GetPrimaryCoinType |-> GetPrimaryCoinType(callArgs.tx)]
    /\ callPc' = "returned"
    /\ UNCHANGED callArgs
    /\ UNCHANGED exceptCall

NextPrimary == AskPrimary

SpecPrimary == InitPrimary /\ [][NextPrimary]_vars

\* the amount of an output is positive
PositiveAmount(txOut) ==
    \/ txOut.CoinType = CoinTypeVAR /\ ~I64Neg(txOut.Value) /\ txOut.Value # I64(0)
    \/ txOut.CoinType # CoinTypeVAR /\ txOut.SKAValue # Nil /\ txOut.SKAValue[1] >= 1

\* PrimaryCoinType(tx) = ct: ct is the coin type of the first output with
\* positive amount; without such an output, of the first output; without
\* outputs, VAR
IsPrimaryCoinType(outs, ct) ==
    \/ \E i \in 1..Len(outs) :
           /\ PositiveAmount(outs[i])
           /\ \A j \in 1..(i - 1) : ~PositiveAmount(outs[j])
           /\ ct = outs[i].CoinType
    \/ /\ outs # <<>>
       /\ \A i \in 1..Len(outs) : ~PositiveAmount(outs[i])
       /\ ct = outs[1].CoinType
    \/ outs = <<>> /\ ct = CoinTypeVAR

\* ct is the coin type of the first output that is not VAR, or VAR when
\* there is none
IsFirstNotVAR(outs, ct) ==
    \/ \E i \in 1..Len(outs) :
           /\ outs[i].CoinType # CoinTypeVAR
           /\ \A j \in 1..(i - 1) : outs[j].CoinType = CoinTypeVAR
           /\ ct = outs[i].CoinType
    \/ /\ \A i \in 1..Len(outs) : outs[i].CoinType = CoinTypeVAR
       /\ ct = CoinTypeVAR

\* all outputs carry one coin type
OneCoinType(outs) ==
    \A i, j \in 1..Len(outs) : outs[i].CoinType = outs[j].CoinType

\* C18 as stated: GetTransactionCoinType and GetPrimaryCoinType both return
\* the coin type of the first output with positive amount, of the first
\* output when no amount is positive, and VAR for no outputs.
C18_BothFirstPositive ==
    callPc = "returned" =>
        /\ IsPrimaryCoinType(callArgs.tx.TxOut, callRet.GetTransactionCoinType)
        /\ IsPrimaryCoinType(callArgs.tx.TxOut, callRet.GetPrimaryCoinType)

\* C18 amended: GetTransactionCoinType returns the coin type of the first
\* output with positive amount, of the first output when no amount is
\* positive, and VAR for no outputs; GetPrimaryCoinType returns the coin
\* type of the first output that is not VAR, and VAR when there is none;
\* the two agree when all outputs carry one coin type.
C18_PrimaryCoinTypes ==
    callPc = "returned" =>
        /\ IsPrimaryCoinType(callArgs.tx.TxOut, callRet.GetTransactionCoinType)
        /\ IsFirstNotVAR(callArgs.tx.TxOut, callRet.GetPrimaryCoinType)
        /\ OneCoinType(callArgs.tx.TxOut) =>
               callRet.GetTransactionCoinType = callRet.GetPrimaryCoinType

\* a data output without value before an SKA-2 payment and a VAR payment:
\* both functions skip the first output
C18_Witness ==
    /\ callPc = "returned"
    /\ Len(callArgs.tx.TxOut) = 3
    /\ ~PositiveAmount(callArgs.tx.TxOut[1])
    /\ callArgs.tx.TxOut[1].CoinType = CoinTypeVAR
    /\ callArgs.tx.TxOut[2].CoinType = 2
    /\ callArgs.tx.TxOut[3].CoinType = CoinTypeVAR
    /\ PositiveAmount(callArgs.tx.TxOut[3])
    /\ callRet.GetTransactionCoinType = 2
    /\ callRet.GetPrimaryCoinType = 2

----------------------------------------------------------------------------
(* The transaction size tracker: src/internal/blockalloc/transaction.go.
   The BlockSpaceAllocator is not part of the sources at hand; it is modelled
   from section 4.7 of the specification. Sizes stay far below 2^32. *)

\* calls of the tracker
MaxTrackCalls == 3

\* the bytes of the block, as in TestCanAddTransaction
TrackMaxBytes == 1000

\* the coin types asked about
TrackCoins == {0, 1, 2}

\* NewBlockSpaceAllocator(max_bytes, params); params holds the floor and the
\* ceiling of a coin type's share
BlockSpaceAllocator(maxBytes, floor, ceiling) ==
    [maxBytes |-> maxBytes, floor |-> floor, ceiling |-> ceiling]

RECURSIVE TotalSize(_, _)
\* the sum of the sizes of the coin types cts
TotalSize(sizes, cts) ==
    IF cts = {} THEN 0
    ELSE LET c == CHOOSE x \in cts : TRUE
         IN sizes[c] + TotalSize(sizes, cts \ {c})

\* the share of a coin type that consumed n of total bytes
ProportionalShare(allocator, n, total) ==
    IF total = 0 THEN allocator.maxBytes ELSE (allocator.maxBytes * n) \div total

\* AllocateBlockSpace: every observed coin type gets its proportional share of
\* max_bytes, not below the floor and not above the ceiling
AllocateBlockSpace(allocator, sizes) ==
    [c \in DOMAIN sizes |->
        [FinalAllocation |->
            LET share == ProportionalShare(allocator, sizes[c],
                                           TotalSize(sizes, DOMAIN sizes))
            IN IF share < allocator.floor THEN allocator.floor
               ELSE IF share > allocator.ceiling THEN allocator.ceiling
               ELSE share]]

\* AllocationResult.GetAllocationForCoinType: Nil for a coin type without one
GetAllocationForCoinType(allocation, coinType) ==
    IF coinType \in DOMAIN allocation THEN Some(allocation[coinType]) ELSE Nil

\* NewTransactionSizeTracker
NewTransactionSizeTracker(allocator) ==
    [sizesByCoinType |-> EmptyMap, allocator |-> allocator]

\* GetSizeForCoinType: a Go map yields 0 for a missing key
GetSizeForCoinType(t, coinType) ==
    IF coinType \in DOMAIN t.sizesByCoinType THEN t.sizesByCoinType[coinType]
    ELSE 0

\* sizes[coinType] += txSize
AddSize(sizes, coinType, txSize) ==
    MapPut(sizes, coinType,
           (IF coinType \in DOMAIN sizes THEN sizes[coinType] ELSE 0) + txSize)

\* the for loop that copies sizesByCoinType into a new map
CopySizes(sizes) == [ct \in DOMAIN sizes |-> sizes[ct]]

\* the admission test on testSizes; the tracker is left as tracked
Admission(t, tracked, testSizes, coinType) ==
    [tst |-> [t EXCEPT !.sizesByCoinType = tracked],
     ret |-> LET coinAllocation ==
                     GetAllocationForCoinType(
                         AllocateBlockSpace(t.allocator, testSizes), coinType)
             IN IF coinAllocation = Nil THEN FALSE
                ELSE testSizes[coinType] <= coinAllocation[1].FinalAllocation]

\* a test that adds the size to the tracker's own map
CanAddTransactionInPlace(t, tx) ==
    Admission(t,
              AddSize(t.sizesByCoinType, GetTransactionCoinType(tx),
                      SerializeSize(tx)),
              AddSize(t.sizesByCoinType, GetTransactionCoinType(tx),
                      SerializeSize(tx)),
              GetTransactionCoinType(tx))

\* CanAddTransaction: the tracker after the call and what the call returns
CanAddTransaction(t, tx) ==
    Admission(t, t.sizesByCoinType,
              AddSize(CopySizes(t.sizesByCoinType), GetTransactionCoinType(tx),
                      SerializeSize(tx)),
              GetTransactionCoinType(tx))

\* createMockTransaction: one input, the outputs given
MockTransaction(outs) ==
    MsgTx(TxSerializeFull, 1,
          <<TxIn(OutPoint(ZeroHash, U32(0), 0), MaxU32, I64(0), Nil, U32(0),
                 U32(0), <<>>)>>,
          outs, U32(0), U32(0))

\* the transactions offered to the tracker: a VAR payment, SKA payments, a data
\* output before an SKA payment, no outputs, and a VAR transaction larger
\* than the block, as in TestCanAddTransaction
TrackerTxs ==
    { MockTransaction(<<VarOut(1000000, <<81>>)>>),
      MockTransaction(<<SkaOut(1, 1000000, <<81>>)>>),
      MockTransaction(<<SkaOut(2, 1000000, <<81>>)>>),
      MockTransaction(<<VarOut(0, <<106>>), SkaOut(1, 1000000, <<81>>)>>),
      MockTransaction(<<>>),
      MockTransaction([i \in 1..10 |-> VarOut(1000000, [j \in 1..100 |-> 81])]) }

\* the allocators of the trackers: no floor and ceiling, and both
TrackAllocators ==
    { BlockSpaceAllocator(TrackMaxBytes, 0, TrackMaxBytes),
      BlockSpaceAllocator(TrackMaxBytes, 100, 900) }

\* a call of the tracker and its result
TrackCall(fn, coinType, txSize, ret) ==
    [fn |-> fn, coinType |-> coinType, txSize |-> txSize, ret |-> ret]

InitTrack ==
    /\ \E allocator \in TrackAllocators : tst = NewTransactionSizeTracker(allocator)
    /\ trackRet = TrackCall("none", 0, 0, FALSE)
    /\ ntrack = 0
    /\ IdleBurn /\ IdleCodec /\ IdleFees /\ IdleEmission /\ IdleLock /\ IdlePool
    /\ IdleCall /\ IdleCalc

\* AddTransaction
AddTransaction(tx) ==
    /\ ntrack < MaxTrackCalls
    /\ ntrack' = ntrack + 1
    /\ tst' = [tst EXCEPT !.sizesByCoinType =
                  AddSize(@, GetTransactionCoinType(tx), SerializeSize(tx))]
    /\ trackRet' = TrackCall("AddTransaction", GetTransactionCoinType(tx),
                             SerializeSize(tx), FALSE)
    /\ UNCHANGED exceptTrack

\* a caller asks CanAddTransaction
CallCanAddTransaction(tx) ==
    /\ ntrack < MaxTrackCalls
    /\ ntrack' = ntrack + 1
    /\ tst' = CanAddTransaction(tst, tx).tst
    /\ trackRet' = TrackCall("CanAddTransaction", GetTransactionCoinType(tx),
                             SerializeSize(tx), CanAddTransaction(tst, tx).ret)
    /\ UNCHANGED exceptTrack

\* Reset
Reset ==
    /\ ntrack < MaxTrackCalls
    /\ ntrack' = ntrack + 1
    /\ tst' = [tst EXCEPT !.sizesByCoinType = EmptyMap]
    /\ trackRet' = TrackCall("Reset", 0, 0, FALSE)
    /\ UNCHANGED exceptTrack

NextTrack ==
    \/ \E tx \in TrackerTxs : AddTransaction(tx)
    \/ \E tx \in TrackerTxs : CallCanAddTransaction(tx)
    \/ Reset

SpecTrack == InitTrack /\ [][NextTrack]_vars

\* C30: a CanAddTransaction call leaves GetSizeForCoinType of every coin type
\* as it was, and CanAddTransaction returns for every transaction after the
\* call what it would have returned before it.
C30_CanAddIsPureQuery ==
    [][ trackRet'.fn = "CanAddTransaction" =>
            /\ \A c \in TrackCoins :
                   GetSizeForCoinType(tst', c) = GetSizeForCoinType(tst, c)
            /\ \A tx \in TrackerTxs :
                   CanAddTransaction(tst', tx).ret = CanAddTransaction(tst, tx).ret
      ]_vars

\* TestCanAddTransaction: after a VAR transaction was added the large VAR
\* transaction is refused, and the tracker still holds the size of the first
C30_Witness ==
    /\ trackRet.fn = "CanAddTransaction"
    /\ trackRet.coinType = CoinTypeVAR
    /\ trackRet.txSize > TrackMaxBytes
    /\ trackRet.ret = FALSE
    /\ DOMAIN tst.sizesByCoinType = {CoinTypeVAR}
    /\ GetSizeForCoinType(tst, CoinTypeVAR) = 87

====
